---- MODULE Spec2Model ----
(***************************************************************************)
(* HSPARC capture pipeline: controller assignment and calibration, the     *)
(* recorder and observer windows, the GamepadPoller and its _Reader        *)
(* threads, and the event store they write to; file encryption, the      *)
(* PIN-guarded actions, the rows of the store, and the trace analysis.     *)
(*                                                                         *)
(* Specifications:                                                         *)
(*   Spec        both windows: controller assignment with the calibration  *)
(*               skipped, capture start, reader threads, stop, sealing;    *)
(*   SpecCal     the observer with one controller: the calibration dialog  *)
(*               and the calibrated reader;                                *)
(*   SpecCrypto  encrypt_file and decrypt_file, statement by statement,    *)
(*               each statement succeeding or raising;                     *)
(*   SpecStudy   the observer's exit, the researcher's participant         *)
(*               deletion and study deletion over the tables of db.py;     *)
(*   SpecAlign   the three alignment functions on two bounded traces;      *)
(*   SpecDetect  convergence detection on two aligned traces;              *)
(*   SpecConv    convert_axis_events on bounded event lists;               *)
(*   SpecSingle  ComprehensiveAnalyzer.analyze on bounded trace sets;      *)
(*   SpecRecog   the recognition check dialog and the session start;       *)
(*   SpecSeal    the recorder stop with its nested event processing;       *)
(*   SpecTemp    the temporary plaintext of the playback windows;          *)
(*   SpecLive    the reader threads of an observer session under weak      *)
(*               fairness of the thread steps.                             *)
(*                                                                         *)
(* Environment: a reader thread blocks only in the device read, so the     *)
(* one-second join of a poller can elapse only on a thread waiting there   *)
(* (or not yet scheduled to open its device); QMediaPlayer.position()      *)
(* never decreases (the seek slider is disabled); distinct (study, pin)    *)
(* pairs derive distinct keys and distinct pins have distinct SHA-256      *)
(* digests; a reader appends only to a stream that exists.                 *)
(***************************************************************************)
EXTENDS Integers, Sequences, FiniteSets, TLC

(***************************************************************************)
(* Bounds of the model.                                                    *)
(***************************************************************************)
MaxTime == 1        \* the clocks run 0 .. MaxTime
MaxLive == 2        \* live events persisted in total
MaxStarts == 2      \* capture starts (recorder) / _start_session runs (observer)
MaxStreams == 2     \* input_streams rows in the store
MaxReady == 2       \* "ready" confirmations accepted by one instructions dialog

(***************************************************************************)
(* Program constants.                                                      *)
(***************************************************************************)
Scale == 1000               \* val = int(normalized * 1000)
WaitingCenter == 128        \* center_threshold of a 0..255 controller
WaitingDeviation == 20      \* "significant movement" threshold

Devices == {1, 2}           \* realpaths of the connected controllers

(***************************************************************************)
(* evdev tables used by the name helpers.  ecodes.ABS[0] is a plain        *)
(* string, ecodes.BTN[304] is a list of aliases; a plain string is a       *)
(* one-element sequence here.  The modelled controllers emit only codes    *)
(* that are in the tables, so the "ABS_<n>"/"KEY_<n>" fallbacks of the     *)
(* helpers are not reached.                                                *)
(***************************************************************************)
AbsCodes == {0}
KeyCodes == {304}
EcodesABS == [c \in AbsCodes |-> <<"ABS_X">>]
EcodesBTN == [c \in KeyCodes |-> <<"BTN_A", "BTN_GAMEPAD", "BTN_SOUTH">>]

\* for s in reversed(nm): return s      (the last alias)
LastName(nm) == nm[Len(nm)]
\* name[0]                              (the first alias)
FirstName(nm) == nm[1]

_code_name_abs(code) == LastName(EcodesABS[code])
_code_name_key(code) == LastName(EcodesBTN[code])
_get_axis_name(code) == FirstName(EcodesABS[code])
_get_button_name(code) == FirstName(EcodesBTN[code])

(***************************************************************************)
(* int(x) of Python truncates toward zero.                                 *)
(***************************************************************************)
TruncDiv(a, b) == IF a >= 0 THEN a \div b ELSE -((-a) \div b)

(***************************************************************************)
(* AxisCal.normalize followed by int(normalized * 1000), in exact          *)
(* arithmetic: normalized = 2*(raw-min)/(max-min) - 1.  The source         *)
(* computes in binary floating point, which can move a result that is not  *)
(* an integer multiple by one unit; at raw = min and raw = max, and for    *)
(* every raw outside [min, max], both computations agree on which side of  *)
(* -1000 / 1000 the result lies.                                           *)
(***************************************************************************)
NormalizeUnclamped(mn, mx, raw) ==
    IF mn = mx THEN 0
    ELSE TruncDiv(Scale * (2 * (raw - mn) - (mx - mn)), mx - mn)

StoredAxisValue(mn, mx, raw) == NormalizeUnclamped(mn, mx, raw)

(***************************************************************************)
(* CalibrationState of controller_calibration_dialog.py.  `set` is FALSE   *)
(* for the None a skipped calibration emits.  axes maps a calibrated axis  *)
(* name to <<min_value, max_value>>; buttons is the set of detected        *)
(* button names.                                                           *)
(***************************************************************************)
NoCalibration == [set |-> FALSE, axes |-> <<>>, buttons |-> {}]

\* CalibrationState.get_allowed_inputs: the axis names, then the button names.
get_allowed_inputs(cal) == (DOMAIN cal.axes) \cup cal.buttons

\* An assignment slot: path = 0 is None.
NoSlot == [path |-> 0, calibration |-> NoCalibration]

VARIABLES
    mode,           \* "recorder" | "observer": the window that is open
    study_pin,      \* RecorderWindow.study_pin is set
    chk_instructions, \* observer: instructions are shown before the countdown
    dlg,            \* the assignment dialog and the calibration dialog it runs
    assigned,       \* self.assigned: slot -> [path, calibration]
    streams,        \* input_streams rows, in creation order; index = id
    events,         \* input_events rows of each stream, in commit order
    readers,        \* the _Reader thread of each stream (pc = "none": no thread)
    poller,         \* self._poller: 0 (None) or the capture start that made it
    nstart,         \* capture starts so far
    elapsed,        \* recorder: (time.monotonic() - _t0_monotonic) * 1000
    position,       \* observer: QMediaPlayer.position()
    playing,        \* observer: the player is playing
    rec_pc,         \* recorder: "idle" | "recording" | "joining" | "stopped" | "sealing"
    obs_pc,         \* observer: "idle" | "instructions" | "countdown" | "running" | "closed"
    ready_timers,   \* instructions dialog: pending singleShot(500, ready_confirmed.emit)
    countdowns,     \* CountdownDialogs that have not yet emitted countdown_complete
    threads         \* GamepadPoller objects by capture start: assigned, _threads

\* State of the file encryption specification (SpecCrypto).
VARIABLES
    fs,             \* the files on disk: path -> content
    call            \* the encrypt_file / decrypt_file call in progress

cryptoVars == <<fs, call>>

\* State of the study access specification (SpecStudy).
VARIABLES
    db,             \* the tables: cases, recordings, observer_sessions,
                    \* input_streams, input_events
    observer_open,  \* an ObserverWindow is open (lockdown)
    gpc,            \* "idle" | "exit_pin": _exit_with_pin waits in its PinDialog
    attempts,       \* the local variable attempts of _exit_with_pin
    access_log,     \* the lines log_access has printed, in order
    allow_close,    \* ObserverWindow._allow_close
    capturing,      \* the observer session runs: player and poller not stopped
    close_warned    \* closeEvent has shown "Observer Mode Locked"

studyVars == <<db, observer_open, gpc, attempts, access_log, allow_close,
               capturing, close_warned>>

\* State of the analysis specifications (SpecAlign, SpecDetect).
VARIABLES
    trace_data,     \* SpecAlign: the two input traces, [times_ms, values] each
    aligned,        \* SpecAlign: the result of the alignment function applied
    pair,           \* SpecDetect: two aligned traces, [times_ms, values1, values2]
    detected        \* SpecDetect: (convergence_events, divergence_events)

alignVars == <<trace_data, aligned>>
detectVars == <<pair, detected>>
\* State of the time-series conversion specification (SpecConv).
VARIABLES
    conv_in,        \* the event series and sampling rate handed to the converter
    conv_out        \* the regular samples returned, <<times, values>>

convVars == <<conv_in, conv_out>>
\* State of the single-trace analysis specification (SpecSingle).
VARIABLES
    single_in,      \* the trace_data handed to analyze: a sequence of traces
    single_out      \* what analyze returned or raised

singleVars == <<single_in, single_out>>
\* State of the recognition check specification (SpecRecog).
VARIABLES
    recog,          \* the RecognitionCheckDialog and the timers it armed
    recog_session   \* recognition_check_passed of the window's ObserverSession row

recogVars == <<recog, recog_session>>
\* State of the recorder stop specification (SpecSeal).
VARIABLES
    stop_stack,     \* the _stop calls in progress, innermost last
    recwin,         \* RecorderWindow: _is_recording, study_pin, the close events taken, closed
    rec_path,       \* Recording.video_path in the store, as the number of .enc suffixes
    disk,           \* path -> Fernet layers of the content, NoLayers when the file is absent
    seals           \* the paths encrypt_file was applied to, in order

sealVars == <<stop_stack, recwin, rec_path, disk, seals>>
\* State of the temporary plaintext specification (SpecTemp).
VARIABLES
    tmpdir,         \* content of each file below /tmp
    windows         \* the playback windows and their _temp_video_path

tempVars == <<tmpdir, windows>>
xVars == <<cryptoVars, studyVars, alignVars, detectVars, convVars, singleVars, recogVars, sealVars, tempVars>>

vars == <<mode, study_pin, chk_instructions, dlg, assigned, streams, events,
          readers, poller, nstart, elapsed, position, playing, rec_pc, obs_pc,
          ready_timers, countdowns, threads, xVars>>

uiVars == <<mode, study_pin, chk_instructions, dlg, assigned, rec_pc, obs_pc,
            ready_timers, countdowns, nstart, poller, threads>>

\* The variables of the other specifications, at rest.
CryptoIdle ==
    /\ fs = <<>>
    /\ call = <<>>
StudyIdle ==
    /\ db = <<>>
    /\ observer_open = FALSE
    /\ gpc = "idle"
    /\ attempts = 0
    /\ access_log = <<>>
    /\ allow_close = FALSE
    /\ capturing = FALSE
    /\ close_warned = FALSE
AlignIdle ==
    /\ trace_data = <<>>
    /\ aligned = <<>>
DetectIdle ==
    /\ pair = <<>>
    /\ detected = <<>>
ConvIdle ==
    /\ conv_in = <<>>
    /\ conv_out = <<>>
SingleIdle ==
    /\ single_in = <<>>
    /\ single_out = <<>>
RecogIdle ==
    /\ recog = <<>>
    /\ recog_session = <<>>
SealIdle ==
    /\ stop_stack = <<>>
    /\ recwin = <<>>
    /\ rec_path = <<>>
    /\ disk = <<>>
    /\ seals = <<>>
TempIdle ==
    /\ tmpdir = <<>>
    /\ windows = <<>>
XIdle == CryptoIdle /\ StudyIdle /\ AlignIdle /\ DetectIdle /\ ConvIdle /\ SingleIdle /\ RecogIdle /\ SealIdle /\ TempIdle

coreVars == <<uiVars, streams, events, readers, elapsed, position, playing>>
\* What the steps of each of the other specifications leave alone.
exceptCrypto == <<coreVars, studyVars, alignVars, detectVars, convVars, singleVars, recogVars, sealVars, tempVars>>
exceptStudy == <<coreVars, cryptoVars, alignVars, detectVars, convVars, singleVars, recogVars, sealVars, tempVars>>
exceptAlign == <<coreVars, cryptoVars, studyVars, detectVars, convVars, singleVars, recogVars, sealVars, tempVars>>
exceptDetect == <<coreVars, cryptoVars, studyVars, alignVars, convVars, singleVars, recogVars, sealVars, tempVars>>
exceptConv == <<coreVars, cryptoVars, studyVars, alignVars, detectVars, singleVars, recogVars, sealVars, tempVars>>
exceptSingle == <<coreVars, cryptoVars, studyVars, alignVars, detectVars, convVars, recogVars, sealVars, tempVars>>
exceptRecog == <<coreVars, cryptoVars, studyVars, alignVars, detectVars, convVars, singleVars, sealVars, tempVars>>
exceptRecogCore == <<cryptoVars, studyVars, alignVars, detectVars, convVars, singleVars, sealVars, tempVars>>
exceptSeal == <<coreVars, cryptoVars, studyVars, alignVars, detectVars, convVars, singleVars, recogVars, tempVars>>
exceptTemp == <<coreVars, cryptoVars, studyVars, alignVars, detectVars, convVars, singleVars, recogVars, sealVars>>

StreamIds == 1 .. Len(streams)

\* A _Reader object: its thread position, _stop, _dev, why run() ended, the
\* poller that owns it, the calibration GamepadPoller.start gave it.
NoReader == [pc |-> "none", stop |-> FALSE, dev |-> "none",
             exit |-> "", owner |-> 0, calibration |-> NoCalibration]

Threads == {s \in StreamIds : readers[s].pc # "none"}
\* self._threads of the poller made by capture start p
ThreadsOf(p) == {s \in Threads : readers[s].owner = p}

LiveEvents(s) == SelectSeq(events[s], LAMBDA e : e.code # "INIT")
RECURSIVE SumLive(_)
SumLive(n) == IF n = 0 THEN 0 ELSE Len(LiveEvents(n)) + SumLive(n - 1)
TotalLive == SumLive(Len(streams))

\* time_source of the window: recorder.py:603, observer.py:761
time_source == IF mode = "recorder" THEN elapsed ELSE position
\* Variant: the subtraction of the time reference the wrong way round.
StampReversed == 0 - time_source

\* t_ms = int(self.time_source())
Stamp == time_source

(***************************************************************************)
(* What a controller can emit: SYN reports, one axis, one button, and an   *)
(* event of another type (EV_MSC).                                         *)
(***************************************************************************)
RawValues == {0, 128, 255}
KeyValues == {0, 1}
DevEvents ==
    {[type |-> "EV_SYN", code |-> 0, value |-> 0],
     [type |-> "EV_MSC", code |-> 4, value |-> 0]}
    \cup {[type |-> "EV_ABS", code |-> c, value |-> v] : c \in AbsCodes, v \in RawValues}
    \cup {[type |-> "EV_KEY", code |-> c, value |-> v] : c \in KeyCodes, v \in KeyValues}

\* The INIT marker both windows write with a new stream.
InitEvent(t0) ==
    [t_ms |-> t0, kind |-> "button", code |-> "INIT", value |-> <<>>,
     is_press |-> "null"]

\* Variant: the reader without the allowed-inputs filter.
FilteredNever(cal, code) == FALSE

\* self.allowed_inputs and code not in self.allowed_inputs
Filtered(cal, code) ==
    /\ cal.set
    /\ get_allowed_inputs(cal) # {}
    /\ code \notin get_allowed_inputs(cal)

\* The EV_ABS branch of _Reader.run: the stored value.
AxisValue(cal, code, raw) ==
    IF cal.set /\ code \in DOMAIN cal.axes
    THEN StoredAxisValue(cal.axes[code][1], cal.axes[code][2], raw)
    ELSE raw

\* is_press = True if v == 1 else False if v == 0 else None
IsPress(v) == IF v = 1 THEN "true" ELSE IF v = 0 THEN "false" ELSE "null"

(***************************************************************************)
(* One iteration of the read loop after the stop check and the SYN skip:   *)
(* <<>> when the event is dropped (continue), <<row>> when a row is built. *)
(***************************************************************************)
ReaderRow(cal, ev, t_ms) ==
    IF ev.type = "EV_ABS" THEN
        LET code == _code_name_abs(ev.code) IN
        IF Filtered(cal, code) THEN <<>>
        ELSE <<[t_ms |-> t_ms, kind |-> "axis", code |-> code,
                value |-> <<AxisValue(cal, code, ev.value)>>, is_press |-> "null"]>>
    ELSE IF ev.type = "EV_KEY" THEN
        LET code == _code_name_key(ev.code) IN
        IF Filtered(cal, code) THEN <<>>
        ELSE <<[t_ms |-> t_ms, kind |-> "button", code |-> code,
                value |-> <<ev.value>>, is_press |-> IsPress(ev.value)]>>
    ELSE <<>>

\* Variant: run() without the finally block.
ReaderFinallyLeak(r) == r

\* The finally block of _Reader.run: close the handle if one was opened.
ReaderFinally(r) ==
    [r EXCEPT !.dev = IF r.dev = "none" THEN "none" ELSE "closed"]

\* The thread leaves run(): break or exception, then finally.
ReaderExit(r, why) ==
    [ReaderFinally(r) EXCEPT !.pc = "done", !.exit = why]

\* _Reader.stop: set the flag, close the handle if the thread has opened it.
ReaderStop(r) ==
    [r EXCEPT !.stop = TRUE,
              !.dev = IF r.dev = "none" THEN "none" ELSE "closed"]

\* Variant: the read loop without its stop check.
StopIgnored(r) == FALSE

\* if self._stop.is_set(): break
StopObserved(r) == r.stop

(***************************************************************************)
(* _Reader.run, one thread per stream s.  A thread blocks in the device    *)
(* read; between two reads it runs to the end of the iteration.            *)
(***************************************************************************)
\* self._dev = InputDevice(self.device_path)
ROpen(s) ==
    /\ s \in Threads
    /\ readers[s].pc = "start"
    /\ \/ readers' = [readers EXCEPT ![s].pc = "loop", ![s].dev = "open"]
       \/ readers' = [readers EXCEPT ![s] = ReaderExit(@, "open_error")]
    /\ UNCHANGED <<uiVars, streams, events, elapsed, position, playing,
                   xVars>>

\* for ev in self._dev.read_loop(): one event is read and handled: stop
\* check, SYN skip, time stamp, name, filter, normalisation, commit.
RNext(s) ==
    /\ s \in Threads
    /\ readers[s].pc = "loop"
    /\ readers[s].dev = "open"
    /\ \E ev \in DevEvents :
         LET r == readers[s]
             row == ReaderRow(r.calibration, ev, Stamp)
         IN  IF StopObserved(r)
             THEN /\ readers' = [readers EXCEPT ![s] = ReaderExit(r, "stop")]
                  /\ UNCHANGED events
             ELSE IF ev.type = "EV_SYN" \/ row = <<>>
             THEN UNCHANGED <<readers, events>>
             ELSE /\ TotalLive < MaxLive
                  /\ events' = [events EXCEPT ![s] = Append(@, row[1])]
                  /\ UNCHANGED readers
    /\ UNCHANGED <<uiVars, streams, elapsed, position, playing, xVars>>

\* Variant: a read error of one reader ends every reader of its poller.
ReadErrorEndsAll(rs, s) ==
    [t \in DOMAIN rs |->
        IF rs[t].pc \in {"start", "loop"} /\ rs[t].owner = rs[s].owner
        THEN ReaderExit(rs[t], "io_error") ELSE rs[t]]

\* except Exception in run(): the exception ends the thread that raised
\* it; nothing is passed to the poller or to the other threads.
ReadErrorCaught(rs, s) == [rs EXCEPT ![s] = ReaderExit(@, "io_error")]

\* read_loop raises: the device is lost, or stop() has closed the handle.
RReadError(s) ==
    /\ s \in Threads
    /\ readers[s].pc = "loop"
    /\ readers' = ReadErrorCaught(readers, s)
    /\ UNCHANGED <<uiVars, streams, events, elapsed, position, playing,
                   xVars>>

\* s.commit() of a row raises: caught by except Exception in run, the
\* thread ends and the row is not stored.
RCommitError(s) ==
    /\ s \in Threads
    /\ readers[s].pc = "loop"
    /\ readers[s].dev = "open"
    /\ ~StopObserved(readers[s])
    /\ \E ev \in DevEvents : ReaderRow(readers[s].calibration, ev, Stamp) # <<>>
    /\ readers' = [readers EXCEPT ![s] = ReaderExit(@, "store_error")]
    /\ UNCHANGED <<uiVars, streams, events, elapsed, position, playing,
                   xVars>>

(***************************************************************************)
(* GamepadPoller.                                                          *)
(***************************************************************************)
\* __init__ calls start(): one _Reader per entry of the assignment map
\* (path -> stream id), each given its stream's calibration, then started.
\* The window's own start() call that follows returns at `if self._threads`.
PollerStart(rs, p, assigned_map, calibrations) ==
    [s \in DOMAIN rs |->
        IF \E d \in DOMAIN assigned_map : assigned_map[d] = s
        THEN [NoReader EXCEPT !.pc = "start", !.owner = p,
                              !.calibration = calibrations[s]]
        ELSE rs[s]]

\* The values of the assignment map in the order start() iterates them
\* (insertion order, which is stream id order).
MapItems(assigned_map) ==
    LET ids == {assigned_map[d] : d \in DOMAIN assigned_map}
    IN  [i \in 1 .. Cardinality(ids) |->
            CHOOSE x \in ids : Cardinality({y \in ids : y < x}) = i - 1]

\* Variant: start() without `if self._threads: return`.
StartUnguarded(_threads, assigned_map) == _threads \o MapItems(assigned_map)

\* GamepadPoller.start, as it changes self._threads (a reader is named by
\* its stream id).
GamepadPollerStart(_threads, assigned_map) ==
    IF _threads # <<>> THEN _threads
    ELSE _threads \o MapItems(assigned_map)

\* GamepadPoller(...): __init__ ends with self.start().
GamepadPoller(assigned_map) ==
    [assigned |-> assigned_map,
     _threads |-> GamepadPollerStart(<<>>, assigned_map)]

\* The window builds the poller and then calls start() on it.
WindowStartsPoller(assigned_map) ==
    LET pl == GamepadPoller(assigned_map)
    IN  [pl EXCEPT !._threads = GamepadPollerStart(@, assigned_map)]

\* Variant: the window stops recording without stopping its poller.
PollerStopSkipped(rs, p) == rs

\* stop(): t.stop() for every thread of the poller.
PollerStop(rs, p) ==
    [s \in DOMAIN rs |->
        IF rs[s].pc # "none" /\ rs[s].owner = p THEN ReaderStop(rs[s]) ELSE rs[s]]

(***************************************************************************)
(* Stream creation, shared by RecorderWindow._start and                    *)
(* ObserverWindow._start_session: for slot in ("A", "B"), one InputStream  *)
(* row and its INIT event in one commit, and assigned_map[realpath] =      *)
(* (st_id, alias).                                                         *)
(***************************************************************************)
SlotStream(slot, p, sess, withCal) ==
    LET v == assigned[slot] IN
    IF v.path = 0 THEN <<>>
    ELSE <<[session_id |-> sess, device_name |-> v.path, created |-> p,
            calibration |-> IF withCal THEN v.calibration ELSE NoCalibration]>>

NewStreams(p, sess, withCal) ==
    SlotStream("A", p, sess, withCal) \o SlotStream("B", p, sess, withCal)

\* Variant: the stream row is committed without its INIT event.
StreamBirthNone(t0) == <<>>

\* The events committed with a new stream.
StreamBirth(t0) == <<InitEvent(t0)>>

\* assigned_map is a dict keyed by realpath: slot B overwrites slot A when
\* both hold the same path.
AssignedMap(n) ==
    LET a == assigned["A"].path
        b == assigned["B"].path
        idA == n + 1
        idB == IF a # 0 THEN n + 2 ELSE n + 1
    IN  [d \in ({a, b} \ {0}) |-> IF d = b THEN idB ELSE idA]

\* The store and the threads after the streams of capture start p were
\* created (INIT at t0) and, if startPoller, the GamepadPoller was built.
CaptureStart(p, sess, t0, withCal, startPoller) ==
    LET new == NewStreams(p, sess, withCal)
        n == Len(streams)
        amap == AssignedMap(n)
        rs == readers \o [i \in 1 .. Len(new) |-> NoReader]
        cals == [i \in 1 .. (n + Len(new)) |-> (streams \o new)[i].calibration]
    IN  /\ Len(streams) + Len(new) <= MaxStreams
        /\ streams' = streams \o new
        /\ events' = events \o [i \in 1 .. Len(new) |-> StreamBirth(t0)]
        /\ readers' = IF startPoller /\ DOMAIN amap # {}
                      THEN PollerStart(rs, p, amap, cals)
                      ELSE rs
        /\ poller' = IF startPoller /\ DOMAIN amap # {} THEN p ELSE poller
        /\ threads' = IF startPoller /\ DOMAIN amap # {}
                      THEN (p :> WindowStartsPoller(amap)) @@ threads
                      ELSE threads

\* A modal dialog runs over the window: its buttons take no clicks.
SomeAssigned == assigned["A"].path # 0 \/ assigned["B"].path # 0
ModalOpen == dlg.open # "closed" \/ ready_timers > 0 \/ countdowns > 0
                \/ obs_pc = "instructions"

(***************************************************************************)
(* RecorderWindow.                                                         *)
(***************************************************************************)
\* _start: Recording and session rows, the time reference, the streams,
\* the media recorder, the poller.  capture is chk_capture_pad; without a
\* selected microphone the handler returns after the rows were written.
RecStart ==
    /\ mode = "recorder"
    /\ rec_pc = "idle"
    /\ ~ModalOpen
    /\ nstart < MaxStarts
    /\ nstart' = nstart + 1
    /\ elapsed' = 0
    /\ \E capture \in BOOLEAN, mic \in BOOLEAN :
         /\ IF capture
            THEN CaptureStart(nstart + 1, nstart + 1, 0, FALSE, mic)
            ELSE UNCHANGED <<streams, events, readers, poller, threads>>
         /\ rec_pc' = IF mic THEN "recording" ELSE "idle"
    /\ UNCHANGED <<mode, study_pin, chk_instructions, dlg, assigned, position,
                   playing, obs_pc, ready_timers, countdowns, xVars>>

\* _stop, first part: if self._poller: self._poller.stop()
RecStop ==
    /\ mode = "recorder"
    /\ rec_pc = "recording"
    /\ ~ModalOpen
    /\ readers' = IF poller # 0 THEN PollerStop(readers, poller) ELSE readers
    /\ rec_pc' = "joining"
    /\ UNCHANGED <<mode, study_pin, chk_instructions, dlg, assigned, streams,
                   events, poller, nstart, elapsed, position, playing, obs_pc,
                   ready_timers, countdowns, threads, xVars>>

\* self._poller.join(timeout=1.0) returns, every thread ended or its second
\* elapsed; self._poller = None; then the media recorder is stopped.
RecJoin ==
    /\ rec_pc = "joining"
    /\ poller' = 0
    /\ rec_pc' = "stopped"
    /\ UNCHANGED <<mode, study_pin, chk_instructions, dlg, assigned, streams,
                   events, readers, nstart, elapsed, position, playing, obs_pc,
                   ready_timers, countdowns, threads, xVars>>

\* if self._recording_id and self.study_pin: ... encrypt_file(...) is entered
\* when the video file exists and is not empty; otherwise the stop ends.
RecSeal ==
    /\ rec_pc = "stopped"
    /\ \E fileOK \in BOOLEAN :
         rec_pc' = IF study_pin /\ fileOK THEN "sealing" ELSE "idle"
    /\ UNCHANGED <<mode, study_pin, chk_instructions, dlg, assigned, streams,
                   events, readers, poller, nstart, elapsed, position, playing,
                   obs_pc, ready_timers, countdowns, threads, xVars>>

\* encrypt_file returns or raises; self._is_recording = False
RecSealed ==
    /\ rec_pc = "sealing"
    /\ rec_pc' = "idle"
    /\ UNCHANGED <<mode, study_pin, chk_instructions, dlg, assigned, streams,
                   events, readers, poller, nstart, elapsed, position, playing,
                   obs_pc, ready_timers, countdowns, threads, xVars>>

\* time.monotonic() advances.
RecTick ==
    /\ mode = "recorder"
    /\ nstart > 0
    /\ elapsed < MaxTime
    /\ elapsed' = elapsed + 1
    /\ UNCHANGED <<uiVars, streams, events, readers, position, playing,
                   xVars>>

(***************************************************************************)
(* ObserverWindow.  The recognition check is left unchecked.               *)
(***************************************************************************)

\* _start -> _continue_after_recognition: the instructions dialog or the
\* countdown dialog is executed.
ObsStart ==
    /\ mode = "observer"
    /\ obs_pc = "idle"
    /\ ~ModalOpen
    /\ SomeAssigned
    /\ IF chk_instructions
       THEN obs_pc' = "instructions" /\ UNCHANGED countdowns
       ELSE obs_pc' = "countdown" /\ countdowns' = countdowns + 1
    /\ UNCHANGED <<mode, study_pin, chk_instructions, dlg, assigned, streams,
                   events, readers, poller, nstart, elapsed, position, playing,
                   rec_pc, ready_timers, threads, xVars>>

\* ObserverInstructionsDialog._handle_ready: a controller button, the Ready
\* button or Return/Space; each call arms singleShot(500, ready_confirmed.emit)
\* and singleShot(500, accept).
HandleReady ==
    /\ obs_pc = "instructions"
    /\ ready_timers < MaxReady
    /\ ready_timers' = ready_timers + 1
    /\ UNCHANGED <<mode, study_pin, chk_instructions, dlg, assigned, streams,
                   events, readers, poller, nstart, elapsed, position, playing,
                   rec_pc, obs_pc, countdowns, threads, xVars>>

\* A ready timer fires: ready_confirmed -> _show_countdown executes a
\* CountdownDialog; the instructions dialog is accepted.
ReadyEmit ==
    /\ ready_timers > 0
    /\ ready_timers' = ready_timers - 1
    /\ countdowns' = countdowns + 1
    /\ obs_pc' = IF obs_pc = "instructions" THEN "countdown" ELSE obs_pc
    /\ UNCHANGED <<mode, study_pin, chk_instructions, dlg, assigned, streams,
                   events, readers, poller, nstart, elapsed, position, playing,
                   rec_pc, threads, xVars>>

\* A countdown completes: countdown_complete -> _start_session.
\* t0 = int(self.player.position()); the streams with their INIT at t0; a
\* new GamepadPoller assigned to self._poller; self.player.play().
StartSession ==
    /\ countdowns > 0
    /\ nstart < MaxStarts
    /\ countdowns' = countdowns - 1
    /\ nstart' = nstart + 1
    /\ CaptureStart(nstart + 1, 1, position, TRUE, TRUE)
    /\ playing' = TRUE
    /\ obs_pc' = "running"
    /\ UNCHANGED <<mode, study_pin, chk_instructions, dlg, assigned, elapsed,
                   position, rec_pc, ready_timers, xVars>>

\* _exit_with_pin with the exit granted: _stop (pause, poller.stop,
\* poller.join(timeout=1.0), self._poller = None) and _force_close.
ObsExit ==
    /\ mode = "observer"
    /\ obs_pc \in {"idle", "running"}
    /\ ~ModalOpen
    /\ playing' = FALSE
    /\ readers' = IF poller # 0 THEN PollerStop(readers, poller) ELSE readers
    /\ poller' = 0
    /\ obs_pc' = "closed"
    /\ UNCHANGED <<mode, study_pin, chk_instructions, dlg, assigned, streams,
                   events, nstart, elapsed, position, rec_pc, ready_timers,
                   countdowns, threads, xVars>>

\* The player advances while it plays.
ObsTick ==
    /\ playing
    /\ position < MaxTime
    /\ position' = position + 1
    /\ UNCHANGED <<uiVars, streams, events, readers, elapsed, playing, xVars>>

(***************************************************************************)
(* AssignControllersDialog.assign: the assignment dialog, then one         *)
(* ControllerCalibrationDialog for each assigned slot.                     *)
(***************************************************************************)
SamplesNeeded == 40         \* len(self._axis_samples) >= 40
RawThreshold == 500         \* abs(event.value) < 500: a 0..255 controller

FreshCalibration == [set |-> TRUE, axes |-> <<>>, buttons |-> {}]
NoDialog ==
    [open |-> "closed", a |-> 0, b |-> 0, slot |-> "A",
     result |-> [A |-> NoSlot, B |-> NoSlot],
     calibrating_axis |-> "none", lo |-> 0, hi |-> 0, n |-> 0,
     detecting_button |-> FALSE, calibration |-> NoCalibration]

\* btn_assign: _assign / _assign_controllers executes the dialog.  The
\* controllers are assigned before the first capture start.
OpenAssign ==
    /\ \/ mode = "observer" /\ obs_pc = "idle"
       \/ mode = "recorder" /\ rec_pc = "idle"
    /\ ~ModalOpen
    /\ nstart = 0
    /\ dlg' = [NoDialog EXCEPT !.open = "assign"]
    /\ UNCHANGED <<mode, study_pin, chk_instructions, assigned, streams,
                   events, readers, poller, nstart, elapsed, position, playing,
                   rec_pc, obs_pc, ready_timers, countdowns, threads, xVars>>

\* _poll_once, the body of its loop for one device that had a KEY or ABS
\* event: ab = <<self.a.realpath, self.b.realpath>>.
PollDevice(ab, rp) ==
    IF ab[1] = 0 THEN <<rp, ab[2]>>
    ELSE IF ab[2] = 0 /\ rp # ab[1] THEN <<ab[1], rp>>
    ELSE ab

\* _poll_once over the devices that had an event, in list order, with the
\* early break once both slots are assigned.
RECURSIVE PollLoop(_, _)
PollLoop(ab, ds) ==
    IF ds = <<>> THEN ab
    ELSE LET nx == PollDevice(ab, Head(ds)) IN
         IF nx[1] # 0 /\ nx[2] # 0 THEN nx ELSE PollLoop(nx, Tail(ds))

DeviceOrders ==
    {ds \in UNION {[1 .. n -> Devices] : n \in 1 .. Cardinality(Devices)} :
        \A i, j \in DOMAIN ds : i # j => ds[i] # ds[j]}

PollOnce ==
    /\ dlg.open = "assign"
    /\ \E ds \in DeviceOrders :
         LET ab == PollLoop(<<dlg.a, dlg.b>>, ds) IN
         dlg' = [dlg EXCEPT !.a = ab[1], !.b = ab[2]]
    /\ UNCHANGED <<mode, study_pin, chk_instructions, assigned, streams,
                   events, readers, poller, nstart, elapsed, position, playing,
                   rec_pc, obs_pc, ready_timers, countdowns, threads, xVars>>

\* _clear_slot
ClearSlot ==
    /\ dlg.open = "assign"
    /\ \E which \in {"A", "B"} :
         dlg' = IF which = "A" THEN [dlg EXCEPT !.a = 0] ELSE [dlg EXCEPT !.b = 0]
    /\ UNCHANGED <<mode, study_pin, chk_instructions, assigned, streams,
                   events, readers, poller, nstart, elapsed, position, playing,
                   rec_pc, obs_pc, ready_timers, countdowns, threads, xVars>>

get_result(a, b) ==
    [A |-> [path |-> a, calibration |-> NoCalibration],
     B |-> [path |-> b, calibration |-> NoCalibration]]

CalibrationDialog(slot, res) ==
    [NoDialog EXCEPT !.open = "calibrate", !.slot = slot, !.result = res,
                     !.calibration = FreshCalibration]

\* OK: get_result, then the calibration dialog of the first assigned slot.
Accept ==
    /\ dlg.open = "assign"
    /\ LET res == get_result(dlg.a, dlg.b) IN
       IF dlg.a # 0 THEN dlg' = CalibrationDialog("A", res) /\ UNCHANGED assigned
       ELSE IF dlg.b # 0 THEN dlg' = CalibrationDialog("B", res) /\ UNCHANGED assigned
       ELSE dlg' = NoDialog /\ assigned' = res
    /\ UNCHANGED <<mode, study_pin, chk_instructions, streams,
                   events, readers, poller, nstart, elapsed, position, playing,
                   rec_pc, obs_pc, ready_timers, countdowns, threads, xVars>>

\* Cancel in the assignment dialog, or a calibration dialog rejected:
\* assign returns {"A": None, "B": None}.
Cancel ==
    /\ dlg.open # "closed"
    /\ dlg' = NoDialog
    /\ assigned' = [A |-> NoSlot, B |-> NoSlot]
    /\ UNCHANGED <<mode, study_pin, chk_instructions, streams,
                   events, readers, poller, nstart, elapsed, position, playing,
                   rec_pc, obs_pc, ready_timers, countdowns, threads, xVars>>

\* The buttons of the calibration dialog are enabled.
CalIdle ==
    /\ dlg.open = "calibrate"
    /\ dlg.calibrating_axis = "none"
    /\ ~dlg.detecting_button

\* A calibration dialog was accepted with cal_state: ctrl["calibration"] =
\* cal_state, then the next assigned slot or the result.
SlotCalibrated(cal_state) ==
    LET res == [dlg.result EXCEPT ![dlg.slot].calibration = cal_state] IN
    IF dlg.slot = "A" /\ res["B"].path # 0
    THEN dlg' = CalibrationDialog("B", res) /\ UNCHANGED assigned
    ELSE dlg' = NoDialog /\ assigned' = res

\* _skip_calibration confirmed: calibration_complete.emit(None)
CalSkip ==
    /\ CalIdle
    /\ SlotCalibrated(NoCalibration)
    /\ UNCHANGED <<mode, study_pin, chk_instructions, streams,
                   events, readers, poller, nstart, elapsed, position, playing,
                   rec_pc, obs_pc, ready_timers, countdowns, threads, xVars>>

\* _finish_calibration confirmed; refused while nothing is configured.
CalFinish ==
    /\ CalIdle
    /\ get_allowed_inputs(dlg.calibration) # {}
    /\ SlotCalibrated(dlg.calibration)
    /\ UNCHANGED <<mode, study_pin, chk_instructions, streams,
                   events, readers, poller, nstart, elapsed, position, playing,
                   rec_pc, obs_pc, ready_timers, countdowns, threads, xVars>>

Abs(v) == IF v < 0 THEN -v ELSE v
Min2(x, y) == IF x < y THEN x ELSE y
Max2(x, y) == IF x > y THEN x ELSE y

\* _start_axis_calibration
CalAddAxis ==
    /\ CalIdle
    /\ dlg' = [dlg EXCEPT !.calibrating_axis = "waiting", !.lo = 0, !.hi = 0, !.n = 0]
    /\ UNCHANGED <<mode, study_pin, chk_instructions, assigned, streams,
                   events, readers, poller, nstart, elapsed, position, playing,
                   rec_pc, obs_pc, ready_timers, countdowns, threads, xVars>>

\* The calibration dialog after _complete_axis_calibration with the label
\* dialog answered ok or not.
CompleteAxis(code, lo, hi, ok) ==
    [dlg EXCEPT !.calibrating_axis = "none", !.lo = 0, !.hi = 0, !.n = 0,
                !.calibration.axes =
                    IF ok THEN (code :> <<lo, hi>>) @@ dlg.calibration.axes
                    ELSE dlg.calibration.axes]

\* _poll_device -> _handle_axis_calibration_event for one EV_ABS event.
CalAxisEvent ==
    /\ dlg.open = "calibrate"
    /\ dlg.calibrating_axis # "none"
    /\ \E c \in AbsCodes, v \in RawValues, ok \in BOOLEAN :
         LET code_name == _get_axis_name(c)
             center_threshold == IF Abs(v) < RawThreshold THEN WaitingCenter ELSE 0
             deviation == Abs(v - center_threshold)
             lo == Min2(dlg.lo, v)
             hi == Max2(dlg.hi, v)
         IN  IF dlg.calibrating_axis = "waiting"
             THEN /\ deviation > WaitingDeviation
                  /\ dlg' = [dlg EXCEPT !.calibrating_axis = code_name,
                                        !.lo = v, !.hi = v, !.n = 1]
             ELSE /\ dlg.calibrating_axis = code_name
                  /\ IF dlg.n + 1 >= SamplesNeeded
                     THEN dlg' = CompleteAxis(code_name, lo, hi, ok)
                     ELSE dlg' = [dlg EXCEPT !.lo = lo, !.hi = hi, !.n = dlg.n + 1]
    /\ UNCHANGED <<mode, study_pin, chk_instructions, assigned, streams,
                   events, readers, poller, nstart, elapsed, position, playing,
                   rec_pc, obs_pc, ready_timers, countdowns, threads, xVars>>

\* _start_button_detection
CalAddButton ==
    /\ CalIdle
    /\ dlg' = [dlg EXCEPT !.detecting_button = TRUE]
    /\ UNCHANGED <<mode, study_pin, chk_instructions, assigned, streams,
                   events, readers, poller, nstart, elapsed, position, playing,
                   rec_pc, obs_pc, ready_timers, countdowns, threads, xVars>>

\* _poll_device -> _handle_button_detection_event for one EV_KEY press.
CalButtonEvent ==
    /\ dlg.open = "calibrate"
    /\ dlg.detecting_button
    /\ \E c \in KeyCodes, ok \in BOOLEAN :
         dlg' = [dlg EXCEPT !.detecting_button = FALSE,
                            !.calibration.buttons =
                                IF ok THEN @ \cup {_get_button_name(c)} ELSE @]
    /\ UNCHANGED <<mode, study_pin, chk_instructions, assigned, streams,
                   events, readers, poller, nstart, elapsed, position, playing,
                   rec_pc, obs_pc, ready_timers, countdowns, threads, xVars>>

\* _remove_selected confirmed for one configured input.
CalRemove ==
    /\ dlg.open = "calibrate"
    /\ \E code \in get_allowed_inputs(dlg.calibration) :
         dlg' = [dlg EXCEPT
                   !.calibration.axes = [k \in (DOMAIN @) \ {code} |-> @[k]],
                   !.calibration.buttons = @ \ {code}]
    /\ UNCHANGED <<mode, study_pin, chk_instructions, assigned, streams,
                   events, readers, poller, nstart, elapsed, position, playing,
                   rec_pc, obs_pc, ready_timers, countdowns, threads, xVars>>

(***************************************************************************)
(* Specifications.                                                         *)
(***************************************************************************)
InitCommon ==
    /\ streams = <<>>
    /\ events = <<>>
    /\ readers = <<>>
    /\ poller = 0
    /\ threads = <<>>
    /\ nstart = 0
    /\ elapsed = 0
    /\ position = 0
    /\ playing = FALSE
    /\ rec_pc = "idle"
    /\ obs_pc = "idle"
    /\ ready_timers = 0
    /\ countdowns = 0
    /\ XIdle

\* A window was constructed; no controller is assigned yet.
Init ==
    /\ mode \in {"recorder", "observer"}
    /\ study_pin \in (IF mode = "recorder" THEN BOOLEAN ELSE {FALSE})
    /\ chk_instructions \in (IF mode = "observer" THEN BOOLEAN ELSE {FALSE})
    /\ dlg = NoDialog
    /\ assigned = [A |-> NoSlot, B |-> NoSlot]
    /\ InitCommon

ReaderStep ==
    \E s \in StreamIds :
        \/ ROpen(s)
        \/ RNext(s)
        \/ RReadError(s)
        \/ RCommitError(s)

Next ==
    \/ OpenAssign
    \/ PollOnce
    \/ ClearSlot
    \/ Accept
    \/ Cancel
    \/ CalSkip
    \/ RecStart
    \/ RecStop
    \/ RecJoin
    \/ RecSeal
    \/ RecSealed
    \/ RecTick
    \/ ObsStart
    \/ HandleReady
    \/ ReadyEmit
    \/ StartSession
    \/ ObsExit
    \/ ObsTick
    \/ ReaderStep

Spec == Init /\ [][Next]_vars

\* The observer window with controller 1 accepted for slot A: its
\* calibration dialog is open.
InitCal ==
    /\ mode = "observer"
    /\ study_pin = FALSE
    /\ chk_instructions = FALSE
    /\ dlg = CalibrationDialog("A", get_result(1, 0))
    /\ assigned = [A |-> NoSlot, B |-> NoSlot]
    /\ InitCommon

NextCal ==
    \/ CalAddAxis
    \/ CalAxisEvent
    \/ CalAddButton
    \/ CalButtonEvent
    \/ CalRemove
    \/ CalFinish
    \/ CalSkip
    \/ Cancel
    \/ ObsStart
    \/ StartSession
    \/ ObsExit
    \/ ObsTick
    \/ ReaderStep

SpecCal == InitCal /\ [][NextCal]_vars

\* The read of a thread whose handle stop() has closed raises.
RClosedRead(s) ==
    /\ s \in Threads
    /\ readers[s].dev = "closed"
    /\ RReadError(s)

\* The observer window with its controllers assigned and the countdown
\* dialog running.
InitLive ==
    /\ mode = "observer"
    /\ study_pin = FALSE
    /\ chk_instructions = FALSE
    /\ dlg = NoDialog
    /\ \E b \in {0, 2} :
         assigned = [A |-> [path |-> 1, calibration |-> NoCalibration],
                     B |-> [path |-> b, calibration |-> NoCalibration]]
    /\ streams = <<>>
    /\ events = <<>>
    /\ readers = <<>>
    /\ poller = 0
    /\ threads = <<>>
    /\ nstart = 0
    /\ elapsed = 0
    /\ position = 0
    /\ playing = FALSE
    /\ rec_pc = "idle"
    /\ obs_pc = "countdown"
    /\ ready_timers = 0
    /\ countdowns = 1
    /\ XIdle

NextLive ==
    \/ StartSession
    \/ ObsTick
    \/ ObsExit
    \/ ReaderStep

\* A started thread runs: it opens its device.  A read on a handle that
\* stop() has closed is taken to return with an error (an assumption in
\* favour of termination).  Nothing makes a controller emit an event.
FairLive ==
    \A s \in 1 .. MaxStreams : WF_vars(ROpen(s)) /\ WF_vars(RClosedRead(s))

SpecLive == InitLive /\ [][NextLive]_vars /\ FairLive

(***************************************************************************)
(* hsparc/utils/study_encryption.py.  A path is [dir, name, enc]: enc is   *)
(* the ".enc" suffix.  A file holds plain bytes, a Fernet token, or the    *)
(* beginning of a token that a failed write left behind.                   *)
(***************************************************************************)
MaxCalls == 3
Pins == {1, 2}
Datas == {"d1", "d2"}
StudyId == "S"

VideoPath == [dir |-> "rec", name |-> "video.mp4", enc |-> FALSE]
\* encrypted_path = filepath + '.enc'
EncPath(filepath) == [filepath EXCEPT !.enc = TRUE]
\* original_path = encrypted_path.replace('.enc', '');
\* temp_path = f"/tmp/{os.path.basename(original_path)}"
TempPath(encrypted_path) ==
    [dir |-> "/tmp", name |-> encrypted_path.name, enc |-> FALSE]
Paths == {VideoPath, EncPath(VideoPath), TempPath(EncPath(VideoPath))}

NoFile == [kind |-> "none"]
Plain(d) == [kind |-> "plain", data |-> d]
Partial == [kind |-> "partial"]

\* PBKDF2-HMAC-SHA256 over the pin with the study id as salt: a
\* deterministic key per (study_id, pin), distinct pairs give distinct keys.
derive_key_from_pin(study_id, pin) == <<study_id, pin>>

\* fernet.encrypt(data): a token that carries the data under the key.
FernetEncrypt(key, d) == [kind |-> "token", key |-> key, data |-> d]

\* Variant: decryption that does not authenticate the token.
FernetDecryptAny(key, content) ==
    IF content.kind = "token" THEN <<content.data>> ELSE <<>>

\* fernet.decrypt(encrypted): the data if the content is a whole token made
\* under the same key, else InvalidToken (the empty result).
FernetDecrypt(key, content) ==
    IF content.kind = "token" /\ content.key = key
    THEN <<content.data>> ELSE <<>>

NoCall == [op |-> "none", pc |-> "idle", pin |-> 0, buf |-> NoFile, n |-> 0]

\* The recorder's muxer has closed a new plaintext video file.
VideoWritten ==
    /\ call.pc \in {"idle", "done", "failed"}
    /\ fs[VideoPath] = NoFile
    /\ fs[EncPath(VideoPath)] = NoFile
    /\ \E d \in Datas : fs' = [fs EXCEPT ![VideoPath] = Plain(d)]
    /\ UNCHANGED call
    /\ UNCHANGED exceptCrypto

\* encrypt_file(filepath, study_id, pin) is called: RecorderWindow._stop
\* calls it for a video file that exists and is not empty, once per file.
EncryptCall ==
    /\ call.pc \in {"idle", "done", "failed"}
    /\ call.n < MaxCalls
    /\ fs[VideoPath] # NoFile
    /\ fs[EncPath(VideoPath)] = NoFile
    /\ \E pin \in Pins :
         call' = [op |-> "encrypt", pc |-> "read", pin |-> pin,
                  buf |-> NoFile, n |-> call.n + 1]
    /\ UNCHANGED fs
    /\ UNCHANGED exceptCrypto

\* with open(filepath, 'rb') as f: data = f.read()
EncRead ==
    /\ call.op = "encrypt" /\ call.pc = "read"
    /\ \/ /\ fs[VideoPath] # NoFile
          /\ call' = [call EXCEPT !.pc = "seal", !.buf = fs[VideoPath]]
       \/ call' = [call EXCEPT !.pc = "failed"]
    /\ UNCHANGED fs
    /\ UNCHANGED exceptCrypto

\* encrypted = fernet.encrypt(data)
EncSeal ==
    /\ call.op = "encrypt" /\ call.pc = "seal"
    /\ \/ call' = [call EXCEPT !.pc = "write",
                       !.buf = FernetEncrypt(
                           derive_key_from_pin(StudyId, call.pin), @.data)]
       \/ call' = [call EXCEPT !.pc = "failed"]
    /\ UNCHANGED fs
    /\ UNCHANGED exceptCrypto

\* with open(encrypted_path, 'wb') as f: f.write(encrypted).  open can
\* fail before the file exists; write can fail after part of it is on disk.
EncWrite ==
    /\ call.op = "encrypt" /\ call.pc = "write"
    /\ \/ /\ fs' = [fs EXCEPT ![EncPath(VideoPath)] = call.buf]
          /\ call' = [call EXCEPT !.pc = "remove"]
       \/ /\ UNCHANGED fs
          /\ call' = [call EXCEPT !.pc = "failed"]
       \/ /\ fs' = [fs EXCEPT ![EncPath(VideoPath)] = Partial]
          /\ call' = [call EXCEPT !.pc = "failed"]
    /\ UNCHANGED exceptCrypto

\* os.remove(filepath); return encrypted_path
EncRemove ==
    /\ call.op = "encrypt" /\ call.pc = "remove"
    /\ \/ /\ fs' = [fs EXCEPT ![VideoPath] = NoFile]
          /\ call' = [call EXCEPT !.pc = "done"]
       \/ /\ UNCHANGED fs
          /\ call' = [call EXCEPT !.pc = "failed"]
    /\ UNCHANGED exceptCrypto

\* decrypt_file(encrypted_path, study_id, pin) is called.
DecryptCall ==
    /\ call.pc \in {"idle", "done", "failed"}
    /\ call.n < MaxCalls
    /\ \E pin \in Pins :
         call' = [op |-> "decrypt", pc |-> "read", pin |-> pin,
                  buf |-> NoFile, n |-> call.n + 1]
    /\ UNCHANGED fs
    /\ UNCHANGED exceptCrypto

\* with open(encrypted_path, 'rb') as f: encrypted = f.read()
DecRead ==
    /\ call.op = "decrypt" /\ call.pc = "read"
    /\ \/ /\ fs[EncPath(VideoPath)] # NoFile
          /\ call' = [call EXCEPT !.pc = "unseal", !.buf = fs[EncPath(VideoPath)]]
       \/ call' = [call EXCEPT !.pc = "failed"]
    /\ UNCHANGED fs
    /\ UNCHANGED exceptCrypto

\* decrypted = fernet.decrypt(encrypted), ValueError on any exception
DecUnseal ==
    /\ call.op = "decrypt" /\ call.pc = "unseal"
    /\ LET out == FernetDecrypt(derive_key_from_pin(StudyId, call.pin), call.buf)
       IN  call' = IF out = <<>>
                   THEN [call EXCEPT !.pc = "failed"]
                   ELSE [call EXCEPT !.pc = "write", !.buf = Plain(out[1])]
    /\ UNCHANGED fs
    /\ UNCHANGED exceptCrypto

\* with open(temp_path, 'wb') as f: f.write(decrypted); return temp_path
DecWrite ==
    /\ call.op = "decrypt" /\ call.pc = "write"
    /\ \/ /\ fs' = [fs EXCEPT ![TempPath(EncPath(VideoPath))] = call.buf]
          /\ call' = [call EXCEPT !.pc = "done"]
       \/ /\ UNCHANGED fs
          /\ call' = [call EXCEPT !.pc = "failed"]
       \/ /\ fs' = [fs EXCEPT ![TempPath(EncPath(VideoPath))] = Partial]
          /\ call' = [call EXCEPT !.pc = "failed"]
    /\ UNCHANGED exceptCrypto

\* The windows and the pollers are not running.
CoreIdle ==
    /\ mode = "recorder"
    /\ study_pin = TRUE
    /\ chk_instructions = FALSE
    /\ dlg = NoDialog
    /\ assigned = [A |-> NoSlot, B |-> NoSlot]
    /\ streams = <<>>
    /\ events = <<>>
    /\ readers = <<>>
    /\ poller = 0
    /\ threads = <<>>
    /\ nstart = 0
    /\ elapsed = 0
    /\ position = 0
    /\ playing = FALSE
    /\ rec_pc = "idle"
    /\ obs_pc = "idle"
    /\ ready_timers = 0
    /\ countdowns = 0

InitCrypto ==
    /\ CoreIdle
    /\ TempIdle
    /\ SealIdle
    /\ RecogIdle
    /\ SingleIdle
    /\ ConvIdle
    /\ StudyIdle
    /\ AlignIdle
    /\ DetectIdle
    /\ fs = [p \in Paths |-> NoFile]
    /\ call = NoCall

NextCrypto ==
    \/ VideoWritten
    \/ EncryptCall
    \/ EncRead
    \/ EncSeal
    \/ EncWrite
    \/ EncRemove
    \/ DecryptCall
    \/ DecRead
    \/ DecUnseal
    \/ DecWrite

SpecCrypto == InitCrypto /\ [][NextCrypto]_vars

(***************************************************************************)
(* Studies, PIN-guarded actions and the rows of the store: models/db.py,   *)
(* ObserverWindow._exit_with_pin, ResearcherWindow._delete_participant.    *)
(* The windows work on study CaseId; its recording is the one the          *)
(* researcher window shows.  Readers append only to streams that exist.    *)
(***************************************************************************)
MaxLog == 4
MaxEvents == 2
max_attempts == 3
Studies == {1, 2}
CaseId == 1
NoHash == <<>>

\* hashlib.sha256(pin).hexdigest(): distinct pins give distinct digests.
hash_pin(pin) == <<"sha256", pin>>
verify_pin(stored_hash, entered_pin) == hash_pin(entered_pin) = stored_hash

\* The rows recording a capture of study c with the given streams leaves:
\* one recording, one session, the streams and their INIT events.
CaptureRows(c, sts) ==
    [recordings |-> {[id |-> c, case_id |-> c]},
     observer_sessions |-> {[id |-> c, recording_id |-> c]},
     input_streams |-> {[id |-> st, session_id |-> c] : st \in sts},
     input_events |-> {[id |-> <<st, 0>>, recording_id |-> c, session_id |-> c,
                        stream_id |-> st] : st \in sts}]

\* Rows by owner, following the foreign keys of models/db.py.
CaseIds(d) == {c.id : c \in d.cases}
RecordingsOf(d, c) == {r \in d.recordings : r.case_id = c}
SessionsOf(d, c) ==
    {x \in d.observer_sessions :
        \E r \in RecordingsOf(d, c) : x.recording_id = r.id}
StreamsOf(d, c) ==
    {x \in d.input_streams : \E se \in SessionsOf(d, c) : x.session_id = se.id}
EventsOf(d, c) ==
    {e \in d.input_events :
        \/ \E r \in RecordingsOf(d, c) : e.recording_id = r.id
        \/ \E se \in SessionsOf(d, c) : e.session_id = se.id
        \/ \E st \in StreamsOf(d, c) : e.stream_id = st.id}

\* Variant: InputStream.events without cascade="all,delete".
DeleteStreamsOnly(d, sts) ==
    [d EXCEPT !.input_streams = @ \ sts]

\* s.delete(stream) and the flush: InputStream.events cascades.
DeleteStreams(d, sts) ==
    [d EXCEPT !.input_streams = @ \ sts,
              !.input_events = {e \in @ : \A st \in sts : e.stream_id # st.id}]

\* ObserverSession.streams cascades.
DeleteSessions(d, ses) ==
    LET sts == {x \in d.input_streams : \E se \in ses : x.session_id = se.id}
    IN  [DeleteStreams(d, sts) EXCEPT !.observer_sessions = @ \ ses]

\* Recording.observer_sessions cascades.
DeleteRecordings(d, rs) ==
    LET ses == {x \in d.observer_sessions : \E r \in rs : x.recording_id = r.id}
    IN  [DeleteSessions(d, ses) EXCEPT !.recordings = @ \ rs]

\* s.delete(study): Study.recordings cascades.
DeleteStudyRow(d, c) ==
    [DeleteRecordings(d, RecordingsOf(d, c.id)) EXCEPT !.cases = @ \ {c}]

\* log_access(case_id, action, success)
LogAccess(action, n, success) ==
    Append(access_log, [action |-> action, n |-> n, success |-> success])

\* _Reader.run commits one more event to a stream.
StoreAppend ==
    /\ \E st \in db.input_streams : \E se \in db.observer_sessions :
         LET n == Cardinality({e \in db.input_events : e.stream_id = st.id})
         IN  /\ se.id = st.session_id
             /\ n < MaxEvents
             /\ db' = [db EXCEPT !.input_events = @ \cup
                         {[id |-> <<st.id, n>>, recording_id |-> se.recording_id,
                           session_id |-> se.id, stream_id |-> st.id]}]
    /\ UNCHANGED <<observer_open, gpc, attempts, access_log, allow_close,
                   capturing, close_warned>>
    /\ UNCHANGED exceptStudy

\* The row of the study the windows work on, if it exists.
CaseRows == {c \in db.cases : c.id = CaseId}
PinRequired(c) == c.is_locked /\ c.security_hash # NoHash

\* Variant: closeEvent accepts every close request.
CloseAcceptedAlways(allow) == TRUE

\* closeEvent: the event is accepted if _allow_close is set, ignored
\* otherwise.
CloseAccepted(allow) == allow

\* _stop, then _force_close: _allow_close is set and close() delivers the
\* close event.
ForceClose ==
    /\ capturing' = FALSE
    /\ allow_close' = TRUE
    /\ observer_open' = ~CloseAccepted(TRUE)
    /\ gpc' = "idle"

\* A close request from outside the exit button (window manager, Alt+F4
\* past keyPressEvent, QApplication): closeEvent.  The close made inside the
\* constructor, when the initial assignment prompt is declined, precedes the
\* open window this specification starts from.
CloseRequest ==
    /\ observer_open
    /\ IF CloseAccepted(allow_close)
       THEN observer_open' = FALSE /\ UNCHANGED close_warned
       ELSE close_warned' = TRUE /\ UNCHANGED observer_open
    /\ UNCHANGED <<db, gpc, attempts, access_log, allow_close, capturing>>
    /\ UNCHANGED exceptStudy

\* btn_exit clicked: _exit_with_pin up to its first PinDialog.  A study
\* that is not locked or has no hash is left without a PIN.
ExitClick ==
    /\ observer_open
    /\ gpc = "idle"
    /\ IF \E c \in CaseRows : PinRequired(c)
       THEN /\ gpc' = "exit_pin"
            /\ attempts' = 0
            /\ UNCHANGED <<observer_open, allow_close, capturing>>
       ELSE /\ ForceClose
            /\ UNCHANGED attempts
    /\ UNCHANGED <<db, access_log, close_warned>>
    /\ UNCHANGED exceptStudy

\* One round of the while loop of _exit_with_pin: the PinDialog returns
\* pin (0: cancelled).
ExitPin ==
    /\ gpc = "exit_pin"
    /\ Len(access_log) < MaxLog
    /\ \E pin \in Pins \cup {0} : \E c \in CaseRows :
         IF pin = 0
         THEN /\ access_log' = LogAccess("OBSERVER_EXIT_CANCELLED", 0, TRUE)
              /\ gpc' = "idle"
              /\ UNCHANGED <<observer_open, attempts, allow_close, capturing>>
         ELSE IF verify_pin(c.security_hash, pin)
         THEN /\ access_log' = LogAccess("OBSERVER_EXIT_GRANTED", 0, TRUE)
              /\ ForceClose
              /\ UNCHANGED attempts
         ELSE /\ attempts' = attempts + 1
              /\ access_log' =
                    LogAccess("OBSERVER_EXIT_DENIED_ATTEMPT", attempts + 1, FALSE)
              /\ gpc' = IF max_attempts - (attempts + 1) > 0
                        THEN "exit_pin" ELSE "idle"
              /\ UNCHANGED <<observer_open, allow_close, capturing>>
    /\ UNCHANGED <<db, close_warned>>
    /\ UNCHANGED exceptStudy

\* _delete_participant: selection sel, the warning answered confirm, the
\* typed text matching or not, the PinDialog returning pin if the study is
\* locked and has a hash, then _do_delete_streams (which may raise).
DeleteParticipant ==
    /\ gpc = "idle"
    /\ Len(access_log) < MaxLog
    /\ \E c \in CaseRows :
       \E sel \in (SUBSET StreamsOf(db, CaseId)) \ {{}} :
       \E confirm \in BOOLEAN, typed \in BOOLEAN, raises \in BOOLEAN :
       \E pin \in Pins \cup {0} :
         IF ~confirm \/ ~typed \/ (PinRequired(c) /\ pin = 0)
         THEN /\ access_log' = LogAccess("PARTICIPANT_DELETE_CANCELLED", 0, TRUE)
              /\ UNCHANGED db
         ELSE IF PinRequired(c) /\ ~verify_pin(c.security_hash, pin)
         THEN /\ access_log' = LogAccess("PARTICIPANT_DELETE_DENIED", 0, FALSE)
              /\ UNCHANGED db
         ELSE IF raises
         THEN /\ access_log' = LogAccess("PARTICIPANT_DELETE_FAILED", 0, FALSE)
              /\ UNCHANGED db
         ELSE /\ access_log' = LogAccess("PARTICIPANT_DELETE_COMPLETED", 0, TRUE)
              /\ db' = DeleteStreams(db, sel)
    /\ UNCHANGED <<observer_open, gpc, attempts, allow_close, capturing,
                   close_warned>>
    /\ UNCHANGED exceptStudy

\* delete_study(study_id), gated by the study's PIN: s.delete(study) with
\* the cascades the relationships of models/db.py declare.
DeleteStudy ==
    /\ gpc = "idle"
    /\ \E c \in db.cases : \E pin \in Pins :
         /\ c.security_hash # NoHash
         /\ verify_pin(c.security_hash, pin)
         /\ db' = DeleteStudyRow(db, c)
    /\ UNCHANGED <<observer_open, gpc, attempts, access_log, allow_close,
                   capturing, close_warned>>
    /\ UNCHANGED exceptStudy

\* Two studies with one capture each; the observer window is open on
\* study CaseId, which may be a legacy row without a hash.
InitStudy ==
    /\ CoreIdle
    /\ TempIdle
    /\ SealIdle
    /\ RecogIdle
    /\ SingleIdle
    /\ ConvIdle
    /\ CryptoIdle
    /\ AlignIdle
    /\ DetectIdle
    /\ \E h \in {NoHash, hash_pin(1)} : \E locked \in BOOLEAN :
         LET a == CaptureRows(1, {11, 12})
             b == CaptureRows(2, {21})
         IN  db = [cases |-> {[id |-> 1, security_hash |-> h, is_locked |-> locked],
                              [id |-> 2, security_hash |-> hash_pin(2),
                               is_locked |-> TRUE]},
                   recordings |-> a.recordings \cup b.recordings,
                   observer_sessions |-> a.observer_sessions \cup b.observer_sessions,
                   input_streams |-> a.input_streams \cup b.input_streams,
                   input_events |-> a.input_events \cup b.input_events]
    /\ observer_open = TRUE
    /\ gpc = "idle"
    /\ attempts = 0
    /\ access_log = <<>>
    /\ allow_close = FALSE
    /\ capturing = TRUE
    /\ close_warned = FALSE

NextStudy ==
    \/ StoreAppend
    \/ CloseRequest
    \/ ExitClick
    \/ ExitPin
    \/ DeleteParticipant
    \/ DeleteStudy

SpecStudy == InitStudy /\ [][NextStudy]_vars

(***************************************************************************)
(* Alignment: ComprehensiveAnalyzer._align_traces and                      *)
(* _align_multiple_traces, ConvergenceAnalyzer._align_time_series.  A      *)
(* trace is [times_ms, values] with strictly increasing times.  np.interp  *)
(* is computed exactly: a value is a fraction <<numerator, denominator>>.  *)
(***************************************************************************)
MaxAlignT == 2
AlignValues == {0, 2}

\* np.unique: the elements of a set of numbers in increasing order.
np_unique(S) ==
    [i \in 1 .. Cardinality(S) |->
        CHOOSE x \in S : Cardinality({y \in S : y < x}) = i - 1]

Range(f) == {f[i] : i \in DOMAIN f}

\* For comparison, forward fill: the last sample at or before x (the first
\* sample before the first time).  No alignment function uses it.
ForwardFill(x, xp, fp) ==
    IF x < xp[1] THEN <<fp[1], 1>>
    ELSE LET j == CHOOSE k \in DOMAIN xp :
                      xp[k] <= x /\ (k = Len(xp) \/ x < xp[k + 1])
         IN  <<fp[j], 1>>

\* np.interp(x, xp, fp): piecewise linear between the samples, the end
\* values outside them.
np_interp(x, xp, fp) ==
    IF x <= xp[1] THEN <<fp[1], 1>>
    ELSE IF x >= xp[Len(xp)] THEN <<fp[Len(xp)], 1>>
    ELSE LET j == CHOOSE k \in 1 .. (Len(xp) - 1) : xp[k] <= x /\ x < xp[k + 1]
             dx == xp[j + 1] - xp[j]
         IN  <<fp[j] * dx + (x - xp[j]) * (fp[j + 1] - fp[j]), dx>>

Interpolate(common_times, data) ==
    [i \in DOMAIN common_times |->
        np_interp(common_times[i], data.times_ms, data.values)]

FirstTimes(td) == {td[n].times_ms[1] : n \in DOMAIN td}
LastTimes(td) == {td[n].times_ms[Len(td[n].times_ms)] : n \in DOMAIN td}
SetMax(S) == CHOOSE x \in S : \A y \in S : y <= x
SetMin(S) == CHOOSE x \in S : \A y \in S : x <= y

\* _align_multiple_traces: the union of the sample times inside the common
\* range, every trace interpolated there.
_align_multiple_traces(td) ==
    LET min_time == SetMax(FirstTimes(td))
        max_time == SetMin(LastTimes(td))
        all_times == UNION {Range(td[n].times_ms) : n \in DOMAIN td}
        common_times ==
            np_unique({t \in all_times : t >= min_time /\ t <= max_time})
    IN  [times_ms |-> common_times,
         values |-> [n \in DOMAIN td |-> Interpolate(common_times, td[n])]]

\* _align_traces: the same computation for two traces.
_align_traces(data1, data2) == _align_multiple_traces(<<data1, data2>>)

\* _align_time_series: a 1 ms grid over the common range (the broadest
\* range if there is no overlap), traces of one sample left out; None
\* (<<>>) if no range or fewer than two traces remain.
_align_time_series(td) ==
    LET lo == SetMax(FirstTimes(td))
        hi == SetMin(LastTimes(td))
        min_time == IF lo >= hi THEN SetMin(FirstTimes(td)) ELSE lo
        max_time == IF lo >= hi THEN SetMax(LastTimes(td)) ELSE hi
        common_times == np_unique(min_time .. (max_time - 1))
        kept == {n \in DOMAIN td : Len(td[n].times_ms) >= 2}
    IN  IF min_time >= max_time \/ Cardinality(kept) < 2 THEN <<>>
        ELSE [times_ms |-> common_times,
              values |-> [n \in kept |-> Interpolate(common_times, td[n])]]

\* The traces over a set of sample times, values from AlignValues.
TracesOver(S) ==
    {[times_ms |-> np_unique(S), values |-> v] :
        v \in [1 .. Cardinality(S) -> AlignValues]}
Traces == UNION {TracesOver(S) : S \in (SUBSET (0 .. MaxAlignT)) \ {{}}}

AlignTraces ==
    /\ aligned = <<>>
    /\ aligned' = [by |-> "_align_traces",
                   out |-> _align_traces(trace_data[1], trace_data[2])]
    /\ UNCHANGED trace_data
    /\ UNCHANGED exceptAlign

AlignMultipleTraces ==
    /\ aligned = <<>>
    /\ aligned' = [by |-> "_align_multiple_traces",
                   out |-> _align_multiple_traces(trace_data)]
    /\ UNCHANGED trace_data
    /\ UNCHANGED exceptAlign

AlignTimeSeries ==
    /\ aligned = <<>>
    /\ aligned' = [by |-> "_align_time_series",
                   out |-> _align_time_series(trace_data)]
    /\ UNCHANGED trace_data
    /\ UNCHANGED exceptAlign

InitAlign ==
    /\ CoreIdle
    /\ TempIdle
    /\ SealIdle
    /\ RecogIdle
    /\ SingleIdle
    /\ ConvIdle
    /\ CryptoIdle
    /\ StudyIdle
    /\ DetectIdle
    /\ trace_data \in {<<a, b>> : a \in Traces, b \in Traces}
    /\ aligned = <<>>

NextAlign ==
    \/ AlignTraces
    \/ AlignMultipleTraces
    \/ AlignTimeSeries

SpecAlign == InitAlign /\ [][NextAlign]_vars

(***************************************************************************)
(* ComprehensiveAnalyzer._analyze_pairwise and                             *)
(* _detect_convergence_divergence on two aligned traces.  Thresholds are   *)
(* tenths (0.3, 0.7); the strength of an event is left out.                *)
(***************************************************************************)
DetectLen == 10
DetectValues == {0, 1, 4}
DetectSteps == {100, 300}
MinSamples == 10
MinDuration == 500
ThresholdDen == 10
convergence_threshold == 3
divergence_threshold == 7

\* euclidean([v1], [v2]) for each pair of aligned values
Distances(values1, values2) ==
    [i \in DOMAIN values1 |-> Abs(values1[i] - values2[i])]

NoDetection == [in_convergence |-> FALSE, in_divergence |-> FALSE, start_idx |-> 1,
                convergence_events |-> <<>>, divergence_events |-> <<>>]

\* One iteration of `for i, d in enumerate(norm_dist)`; norm_dist[i] is
\* (distances[i] - d_min) / span, compared without dividing.
DetectStep(st, i, times_ms, distances, d_min, span) ==
    LET d == distances[i] - d_min
        low == d * ThresholdDen < convergence_threshold * span
        high == d * ThresholdDen > divergence_threshold * span
        c == IF low /\ ~st.in_convergence
             THEN [st EXCEPT !.start_idx = i, !.in_convergence = TRUE]
             ELSE IF ~low /\ st.in_convergence
             THEN [st EXCEPT
                     !.in_convergence = FALSE,
                     !.convergence_events =
                        IF times_ms[i - 1] - times_ms[st.start_idx] > MinDuration
                        THEN Append(@, <<times_ms[st.start_idx], times_ms[i - 1]>>)
                        ELSE @]
             ELSE st
    IN  IF high /\ ~c.in_divergence
        THEN [c EXCEPT !.start_idx = i, !.in_divergence = TRUE]
        ELSE IF ~high /\ c.in_divergence
        THEN [c EXCEPT
                !.in_divergence = FALSE,
                !.divergence_events =
                   IF times_ms[i - 1] - times_ms[c.start_idx] > MinDuration
                   THEN Append(@, <<times_ms[c.start_idx], times_ms[i - 1]>>)
                   ELSE @]
        ELSE c

RECURSIVE DetectLoop(_, _, _, _, _, _)
DetectLoop(st, i, times_ms, distances, d_min, span) ==
    IF i > Len(distances) THEN st
    ELSE DetectLoop(DetectStep(st, i, times_ms, distances, d_min, span),
                    i + 1, times_ms, distances, d_min, span)

\* _detect_convergence_divergence: nothing for fewer than 10 samples or a
\* flat distance; else the events the loop has closed when it ends.
_detect_convergence_divergence(times_ms, distances) ==
    LET d_min == SetMin(Range(distances))
        d_max == SetMax(Range(distances))
        st == DetectLoop(NoDetection, 1, times_ms, distances, d_min, d_max - d_min)
    IN  IF Len(distances) < MinSamples \/ d_max = d_min THEN <<<<>>, <<>>>>
        ELSE <<st.convergence_events, st.divergence_events>>

\* conv_events, div_events of _analyze_pairwise
AnalyzePairwise ==
    /\ detected = <<>>
    /\ detected' = _detect_convergence_divergence(
                       pair.times_ms, Distances(pair.values1, pair.values2))
    /\ UNCHANGED pair
    /\ UNCHANGED exceptDetect

\* Two aligned traces of DetectLen samples at a fixed step.
InitDetect ==
    /\ CoreIdle
    /\ TempIdle
    /\ SealIdle
    /\ RecogIdle
    /\ SingleIdle
    /\ ConvIdle
    /\ CryptoIdle
    /\ StudyIdle
    /\ AlignIdle
    /\ \E step \in DetectSteps : \E v \in [1 .. DetectLen -> DetectValues] :
         pair = [times_ms |-> [i \in 1 .. DetectLen |-> (i - 1) * step],
                 values1 |-> v,
                 values2 |-> [i \in 1 .. DetectLen |-> 0]]
    /\ detected = <<>>

NextDetect == AnalyzePairwise

SpecDetect == InitDetect /\ [][NextDetect]_vars

(***************************************************************************)
(* hsparc/utils/timeseries_converter.py: TimeSeriesConverter turns an      *)
(* event series into samples at a regular rate.  interval_ms is the float  *)
(* 1000.0 / sampling_rate_hz; it is kept here as the exact fraction        *)
(* 1000 / rate, so sample k lies at k * 1000 / rate and a comparison with  *)
(* an integer event time is made on cross products.  For the rates used    *)
(* here the float products fall on the same side of every integer as the   *)
(* exact ones.                                                             *)
(***************************************************************************)
MaxConvT == 6
MaxConvLen == 3
ConvRates == {500, 300}
ConvValues == {-32768, 255}

CeilDiv(a, b) == (a + b - 1) \div b

\* The while loop of the forward fill: event_idx moves on as long as the
\* next event lies at or before sample k (event_idx is an index from 1).
RECURSIVE AdvanceStrict(_, _, _, _)
AdvanceStrict(times_ms, event_idx, k, rate) ==
    IF event_idx < Len(times_ms) /\ times_ms[event_idx + 1] * rate < k * 1000
    THEN AdvanceStrict(times_ms, event_idx + 1, k, rate)
    ELSE event_idx

RECURSIVE Advance(_, _, _, _)
Advance(times_ms, event_idx, k, rate) ==
    IF event_idx < Len(times_ms) /\ times_ms[event_idx + 1] * rate <= k * 1000
    THEN Advance(times_ms, event_idx + 1, k, rate)
    ELSE event_idx

\* regular_values_stepped for the samples k .. num_samples - 1, the scan
\* standing at event_idx.
RECURSIVE SteppedFrom(_, _, _, _, _, _)
SteppedFrom(times_ms, values, k, num_samples, event_idx, rate) ==
    IF k >= num_samples THEN <<>>
    ELSE LET idx == Advance(times_ms, event_idx, k, rate)
         IN  <<values[idx]>> \o
             SteppedFrom(times_ms, values, k + 1, num_samples, idx, rate)

\* convert_axis_events(times_ms, values, "forward_fill") of a converter
\* built with sampling_rate_hz = rate.  astype(np.int32) cuts a sample time
\* to its integer part; np.round and astype(np.int32) leave a stored axis
\* value, an integer in the int32 range, as it is.
convert_axis_events(times_ms, values, rate) ==
    IF times_ms = <<>> \/ values = <<>> THEN <<<<>>, <<>>>>
    ELSE LET max_time == times_ms[Len(times_ms)]
             num_samples == CeilDiv(max_time * rate, 1000) + 1
             regular_values_stepped ==
                 SteppedFrom(times_ms, values, 0, num_samples, 1, rate)
         IN  << [i \in 1 .. num_samples |-> ((i - 1) * 1000) \div rate],
                [i \in 1 .. num_samples |-> regular_values_stepped[i]] >>

\* The event times of one axis, as the store returns them: in time order.
SortedTimes ==
    {ts \in UNION {[1 .. n -> 0 .. MaxConvT] : n \in 0 .. MaxConvLen} :
        \A i \in 1 .. Len(ts) - 1 : ts[i] <= ts[i + 1]}

\* _build_timeseries_dataframes converts one axis series.
ConvertAxisEvents ==
    /\ conv_out = <<>>
    /\ conv_out' = convert_axis_events(conv_in.times_ms, conv_in.values_raw,
                                       conv_in.sampling_rate_hz)
    /\ UNCHANGED conv_in
    /\ UNCHANGED exceptConv

InitConv ==
    /\ CoreIdle
    /\ TempIdle
    /\ SealIdle
    /\ RecogIdle
    /\ SingleIdle
    /\ CryptoIdle
    /\ StudyIdle
    /\ AlignIdle
    /\ DetectIdle
    /\ \E ts \in SortedTimes : \E vs \in [1 .. Len(ts) -> ConvValues] :
       \E rate \in ConvRates :
           conv_in = [times_ms |-> ts, values_raw |-> vs,
                      sampling_rate_hz |-> rate]
    /\ conv_out = <<>>

NextConv ==
    \/ ConvertAxisEvents

SpecConv == InitConv /\ [][NextConv]_vars

(***************************************************************************)
(* Properties.                                                             *)
(***************************************************************************)
(* ComprehensiveAnalyzer.analyze and _analyze_single.  A result is a       *)
(* record; raised names the exception that left the call, "" when it       *)
(* returned.  mean and median are fractions <<numerator, denominator>>.    *)
(* The traces here have at most two samples, for which the median is the   *)
(* mean and the change-point, peak and valley detectors return [] on       *)
(* their len(values) < 3 guard.                                            *)
(***************************************************************************)
MaxSingleT == 2
SingleLens == {0, 1, 2}
SingleValues == {-1, 0, 1}

RECURSIVE SeqSum(_)
SeqSum(q) == IF q = <<>> THEN 0 ELSE Head(q) + SeqSum(Tail(q))

Raised(error) == [raised |-> error]

\* np.min / np.max of an array, as <<value>>; a zero-size array has no
\* minimum and the reduction raises ValueError: <<>>.
np_min(values) == IF values = <<>> THEN <<>> ELSE <<SetMin(Range(values))>>

np_max(values) == IF values = <<>> THEN <<>> ELSE <<SetMax(Range(values))>>

\* Both detectors return on their first line for fewer than three samples.
_detect_change_points(times_ms, values) == <<>>

_detect_peaks_valleys(times_ms, values) == <<<<>>, <<>>>>

_analyze_single(trace) ==
    LET times_ms == trace.times_ms
        values == trace.values
        n == Len(values)
        \* np.mean and np.median of a zero-size array are nan (a warning)
        mean_val == IF n = 0 THEN "nan" ELSE <<SeqSum(values), n>>
        median_val == mean_val
        min_val == np_min(values)
        max_val == np_max(values)
    IN  IF min_val = <<>> \/ max_val = <<>> THEN Raised("ValueError")
        ELSE [raised |-> "",
              analysis_type |-> "single",
              mean |-> mean_val,
              median |-> median_val,
              min_val |-> min_val[1],
              max_val |-> max_val[1],
              range_val |-> max_val[1] - min_val[1],
              duration_ms |-> IF Len(times_ms) > 1
                              THEN times_ms[Len(times_ms)] - times_ms[1] ELSE 0,
              num_samples |-> n,
              change_points |-> _detect_change_points(times_ms, values),
              peaks |-> _detect_peaks_valleys(times_ms, values)[1],
              valleys |-> _detect_peaks_valleys(times_ms, values)[2]]

_empty_results == [raised |-> "", analysis_type |-> "none"]

analyze(traces) ==
    IF Len(traces) = 0 THEN _empty_results
    ELSE _analyze_single(traces[1])

SingleTraces ==
    {[times_ms |-> ts, values |-> vs] :
        ts \in {t \in UNION {[1 .. n -> 0 .. MaxSingleT] : n \in SingleLens} :
                   \A i \in 1 .. Len(t) - 1 : t[i] <= t[i + 1]},
        vs \in UNION {[1 .. n -> SingleValues] : n \in SingleLens}}

Analyze ==
    /\ single_out = <<>>
    /\ single_out' = analyze(single_in)
    /\ UNCHANGED single_in
    /\ UNCHANGED exceptSingle

InitSingle ==
    /\ CoreIdle
    /\ TempIdle
    /\ SealIdle
    /\ RecogIdle
    /\ CryptoIdle
    /\ StudyIdle
    /\ AlignIdle
    /\ DetectIdle
    /\ ConvIdle
    /\ single_in \in {<<>>} \cup
           {<<tr>> : tr \in {x \in SingleTraces : Len(x.times_ms) = Len(x.values)}}
    /\ single_out = <<>>

NextSingle ==
    \/ Analyze

SpecSingle == InitSingle /\ [][NextSingle]_vars

(***************************************************************************)
(* The recognition check of the observer window: ObserverWindow._start     *)
(* with chk_recognition checked, RecognitionCheckDialog and                *)
(* _handle_recognition_result.  recog.now counts steps of 500 ms; a timer  *)
(* armed with QTimer.singleShot is [at, kind] in recog.timers, in the      *)
(* order of arming; timers fire in the event loop that is running, also    *)
(* the nested loop of a message box or of the countdown dialog.  The 200   *)
(* ms debounce of controller input is shorter than one step.  The          *)
(* instructions are left unchecked.                                        *)
(***************************************************************************)
MaxRecogT == 20
MaxRecogTimers == 6
FailDelay == 3000 \div 500
SuccessDelay == 1500 \div 500
CountdownDelay == 5000 \div 500

RecogClosed == [open |-> FALSE, poll |-> FALSE, selected_option |-> 1,
                responses |-> <<>>, now |-> 0, timers |-> <<>>,
                recognized |-> FALSE]

\* expected_controllers: the paths of slots A and B, in that order.
ExpectedControllers ==
    (IF assigned["A"].path # 0 THEN <<assigned["A"].path>> ELSE <<>>) \o
    (IF assigned["B"].path # 0 THEN <<assigned["B"].path>> ELSE <<>>)

\* self.responses.get(path): None for a controller without an entry.
ResponseOf(responses, path) ==
    IF path \in DOMAIN responses THEN responses[path] ELSE "None"

\* _start with chk_recognition checked: the dialog is executed; it opens the
\* assigned controllers and starts its 16 ms poll timer.
RecogStartCheck ==
    /\ mode = "observer"
    /\ obs_pc = "idle"
    /\ SomeAssigned
    /\ ~recog.open
    /\ recog' = [recog EXCEPT !.open = TRUE, !.poll = TRUE]
    /\ obs_pc' = "recognition"
    /\ UNCHANGED <<mode, study_pin, chk_instructions, dlg, assigned, streams,
                   events, readers, poller, nstart, elapsed, position, playing,
                   rec_pc, ready_timers, countdowns, threads, recog_session,
                   exceptRecogCore>>

\* _move_selection: D-pad or stick through the poll timer, or an arrow key.
RecogMove ==
    /\ recog.open
    /\ \E keyboard \in BOOLEAN :
         /\ keyboard \/ recog.poll
         /\ recog' = [recog EXCEPT !.selected_option = (@ + 1) % 2]
    /\ UNCHANGED recog_session
    /\ UNCHANGED exceptRecog

\* _handle_selection(device_path) and the outcome it arms.
HandleSelection(rc, device_path) ==
    LET response_type == IF rc.selected_option = 0 THEN "RECOGNIZE"
                         ELSE "NOT_RECOGNIZE"
        responses == [q \in DOMAIN rc.responses \cup {device_path} |->
                         IF q = device_path THEN response_type
                         ELSE rc.responses[q]]
        expected == ExpectedControllers
        all_responded == \A i \in DOMAIN expected :
                             ResponseOf(responses, expected[i]) # "NO_RESPONSE"
        answers == {ResponseOf(responses, expected[i]) : i \in DOMAIN expected}
        recorded == [rc EXCEPT !.responses = responses,
                               !.recognized = @ \/ response_type = "RECOGNIZE"]
    IN  IF expected = <<>> \/ ~all_responded THEN recorded
        ELSE IF "RECOGNIZE" \in answers
        THEN [recorded EXCEPT
                !.poll = FALSE,
                !.timers = @ \o <<[at |-> rc.now + FailDelay, kind |-> "emit_false"],
                                  [at |-> rc.now + FailDelay, kind |-> "accept"]>>]
        ELSE IF answers = {"NOT_RECOGNIZE"}
        THEN [recorded EXCEPT
                !.poll = FALSE,
                !.timers = @ \o <<[at |-> rc.now + SuccessDelay, kind |-> "emit_true"],
                                  [at |-> rc.now + SuccessDelay, kind |-> "accept"]>>]
        ELSE recorded

\* A button press of an assigned controller, read by the poll timer.
RecogControllerPress ==
    /\ recog.open /\ recog.poll
    /\ Len(recog.timers) + 2 <= MaxRecogTimers
    /\ \E i \in DOMAIN ExpectedControllers :
         recog' = HandleSelection(recog, ExpectedControllers[i])
    /\ UNCHANGED recog_session
    /\ UNCHANGED exceptRecog

\* keyPressEvent with Return or Space: a selection of the first controller.
RecogKeyPress ==
    /\ recog.open
    /\ Len(recog.timers) + 2 <= MaxRecogTimers
    /\ ExpectedControllers # <<>>
    /\ recog' = HandleSelection(recog, ExpectedControllers[1])
    /\ UNCHANGED recog_session
    /\ UNCHANGED exceptRecog

\* The timer that fires next: the first armed among those that are due.
DueTimers == {i \in DOMAIN recog.timers : recog.timers[i].at <= recog.now}
NextTimer == SetMin(DueTimers)
TimersAfterFire ==
    SubSeq(recog.timers, 1, NextTimer - 1) \o
    SubSeq(recog.timers, NextTimer + 1, Len(recog.timers))

\* 500 ms pass; a due timer fires first.
RecogTick ==
    /\ recog.open \/ recog.timers # <<>>
    /\ DueTimers = {}
    /\ recog.now < MaxRecogT
    /\ recog' = [recog EXCEPT !.now = @ + 1]
    /\ UNCHANGED recog_session
    /\ UNCHANGED exceptRecog

\* check_completed(passed) -> _handle_recognition_result: the session row is
\* created or updated with the result; passed continues to the countdown
\* dialog, failed shows the warning.
RecogEmit ==
    /\ DueTimers # {}
    /\ recog.timers[NextTimer].kind \in {"emit_true", "emit_false"}
    /\ LET passed == recog.timers[NextTimer].kind = "emit_true"
       IN  /\ recog_session' = IF passed THEN "passed" ELSE "failed"
           /\ recog' = [recog EXCEPT !.timers =
                   IF passed
                   THEN TimersAfterFire \o
                        <<[at |-> recog.now + CountdownDelay, kind |-> "countdown"]>>
                   ELSE TimersAfterFire]
           /\ obs_pc' = IF passed THEN "countdown" ELSE obs_pc
    /\ UNCHANGED <<mode, study_pin, chk_instructions, dlg, assigned, streams,
                   events, readers, poller, nstart, elapsed, position, playing,
                   rec_pc, ready_timers, countdowns, threads, exceptRecogCore>>

\* The accept armed with the outcome closes the dialog.
RecogAccept ==
    /\ DueTimers # {}
    /\ recog.timers[NextTimer].kind = "accept"
    /\ recog' = [recog EXCEPT !.timers = TimersAfterFire, !.open = FALSE,
                              !.poll = FALSE]
    /\ UNCHANGED recog_session
    /\ UNCHANGED exceptRecog

\* The safeguard of _start_session: chk_recognition is checked and the row
\* of the session says the check failed.
SessionBlocked == recog_session = "failed"

\* countdown_complete -> _start_session, stopped by the safeguard.
RecogSessionBlocked ==
    /\ DueTimers # {}
    /\ recog.timers[NextTimer].kind = "countdown"
    /\ SessionBlocked
    /\ recog' = [recog EXCEPT !.timers = TimersAfterFire]
    /\ UNCHANGED recog_session
    /\ UNCHANGED exceptRecog

\* countdown_complete -> _start_session: the streams with their INIT at
\* t0, a new GamepadPoller, self.player.play().
RecogStartSession ==
    /\ DueTimers # {}
    /\ recog.timers[NextTimer].kind = "countdown"
    /\ ~SessionBlocked
    /\ nstart < MaxStarts
    /\ recog' = [recog EXCEPT !.timers = TimersAfterFire]
    /\ nstart' = nstart + 1
    /\ CaptureStart(nstart + 1, 1, position, TRUE, TRUE)
    /\ playing' = TRUE
    /\ obs_pc' = "running"
    /\ UNCHANGED <<mode, study_pin, chk_instructions, dlg, assigned, elapsed,
                   position, rec_pc, ready_timers, countdowns, recog_session,
                   exceptRecogCore>>

\* The observer window with controller 1 in slot A and, possibly,
\* controller 2 in slot B; chk_recognition is checked.
InitRecog ==
    /\ mode = "observer"
    /\ study_pin = FALSE
    /\ chk_instructions = FALSE
    /\ dlg = NoDialog
    /\ \E b \in {0, 2} :
         assigned = [A |-> [path |-> 1, calibration |-> NoCalibration],
                     B |-> [path |-> b, calibration |-> NoCalibration]]
    /\ streams = <<>>
    /\ events = <<>>
    /\ readers = <<>>
    /\ poller = 0
    /\ threads = <<>>
    /\ nstart = 0
    /\ elapsed = 0
    /\ position = 0
    /\ playing = FALSE
    /\ rec_pc = "idle"
    /\ obs_pc = "idle"
    /\ ready_timers = 0
    /\ countdowns = 0
    /\ CryptoIdle
    /\ TempIdle
    /\ SealIdle
    /\ StudyIdle
    /\ AlignIdle
    /\ DetectIdle
    /\ ConvIdle
    /\ SingleIdle
    /\ recog = RecogClosed
    /\ recog_session = "none"

NextRecog ==
    \/ RecogStartCheck
    \/ RecogMove
    \/ RecogControllerPress
    \/ RecogKeyPress
    \/ RecogTick
    \/ RecogEmit
    \/ RecogAccept
    \/ RecogSessionBlocked
    \/ RecogStartSession

SpecRecog == InitRecog /\ [][NextRecog]_vars

(***************************************************************************)
(* RecorderWindow._stop and closeEvent, with the files of the recording.   *)
(* _stop calls QApplication.processEvents() while _is_recording is still   *)
(* set, so a close event that is pending is handled inside it: closeEvent  *)
(* calls _stop again.  A path is the number of ".enc" suffixes after the   *)
(* name of the video file; encrypt_file is taken as one step here (its     *)
(* steps and failures are in SpecCrypto).                                  *)
(***************************************************************************)
MaxClose == 2
MaxSeals == 3
NoLayers == 0 - 1

EventPoints == {"events1", "events2", "events3", "events4"}
Top == stop_stack[Len(stop_stack)]
SetTop(f) == [stop_stack EXCEPT ![Len(stop_stack)] = f]
Pop == SubSeq(stop_stack, 1, Len(stop_stack) - 1)
NewFrame(from_close) ==
    [pc |-> "events1", video_path |-> 0, from_close |-> from_close,
     waited |-> FALSE]

\* if not self._is_recording: return
StopEntered == recwin.is_recording

\* btn_stop clicked: _stop disables the button and reaches its first
\* processEvents().
StopClick ==
    /\ stop_stack = <<>>
    /\ ~recwin.closed
    /\ StopEntered
    /\ stop_stack' = <<NewFrame(FALSE)>>
    /\ UNCHANGED <<recwin, rec_path, disk, seals>>
    /\ UNCHANGED exceptSeal

\* A close event is delivered, by the idle event loop or by a
\* processEvents() of _stop: closeEvent calls _stop if _is_recording, then
\* cleans up and lets the window close.
CloseEvent ==
    /\ ~recwin.closed
    /\ recwin.close_events < MaxClose
    /\ IF stop_stack = <<>> THEN TRUE ELSE Top.pc \in EventPoints
    /\ IF StopEntered
       THEN /\ stop_stack' = Append(stop_stack, NewFrame(TRUE))
            /\ recwin' = [recwin EXCEPT !.close_events = @ + 1]
       ELSE /\ recwin' = [recwin EXCEPT !.close_events = @ + 1, !.closed = TRUE]
            /\ UNCHANGED stop_stack
    /\ UNCHANGED <<rec_path, disk, seals>>
    /\ UNCHANGED exceptSeal

\* processEvents() returns; the poller is stopped and joined, the media
\* recorder is told to stop.  It has stopped at once, or the wait loop
\* reaches its processEvents().
StopMedia ==
    /\ stop_stack # <<>>
    /\ Top.pc = "events1"
    /\ \E stopped \in BOOLEAN :
         stop_stack' = SetTop([Top EXCEPT !.pc = IF stopped THEN "events3"
                                                ELSE "events2"])
    /\ UNCHANGED <<recwin, rec_path, disk, seals>>
    /\ UNCHANGED exceptSeal

\* The wait loop ends: the recorder stopped, 5 s passed, or the recorder
\* object was cleaned up by a closeEvent (the exception is caught).
StopWaited ==
    /\ stop_stack # <<>>
    /\ Top.pc = "events2"
    /\ stop_stack' = SetTop([Top EXCEPT !.pc = "events3", !.waited = TRUE])
    /\ UNCHANGED <<recwin, rec_path, disk, seals>>
    /\ UNCHANGED exceptSeal

\* if self._recording_id and self.study_pin: processEvents(), then the row
\* of the recording is read: video_path = Path(rec.video_path).
StopQuery ==
    /\ stop_stack # <<>>
    /\ Top.pc = "events3"
    /\ stop_stack' =
          SetTop(IF ~recwin.study_pin THEN [Top EXCEPT !.pc = "finish"]
                 ELSE [Top EXCEPT !.video_path = rec_path,
                                  !.pc = IF disk[rec_path] # NoLayers
                                         THEN "encrypt" ELSE "events4"])
    /\ UNCHANGED <<recwin, rec_path, disk, seals>>
    /\ UNCHANGED exceptSeal

\* The loop that waits for the video file, with its processEvents(): the
\* file is there, or the 10 s are over.
StopFileWait ==
    /\ stop_stack # <<>>
    /\ Top.pc = "events4"
    /\ stop_stack' = SetTop([Top EXCEPT !.pc =
            IF disk[Top.video_path] # NoLayers THEN "encrypt" ELSE "finish"])
    /\ UNCHANGED <<recwin, rec_path, disk, seals>>
    /\ UNCHANGED exceptSeal

\* encrypt_file(str(video_path), ...): filepath + '.enc' is written with one
\* more Fernet layer, filepath is removed; rec.video_path = encrypted_path.
StopEncrypt ==
    /\ stop_stack # <<>>
    /\ Top.pc = "encrypt"
    /\ Len(seals) < MaxSeals
    /\ LET filepath == Top.video_path
       IN  IF disk[filepath] = NoLayers
           THEN UNCHANGED <<disk, seals, rec_path>>
           ELSE /\ disk' = [disk EXCEPT ![filepath + 1] = disk[filepath] + 1,
                                        ![filepath] = NoLayers]
                /\ seals' = Append(seals, filepath)
                /\ rec_path' = filepath + 1
    /\ stop_stack' = SetTop([Top EXCEPT !.pc = "finish"])
    /\ UNCHANGED recwin
    /\ UNCHANGED exceptSeal

\* self._is_recording = False and _stop returns; a closeEvent that called
\* it cleans up and the window closes.
StopFinish ==
    /\ stop_stack # <<>>
    /\ Top.pc = "finish"
    /\ recwin' = [recwin EXCEPT !.is_recording = FALSE,
                                !.closed = @ \/ Top.from_close]
    /\ stop_stack' = Pop
    /\ UNCHANGED <<rec_path, disk, seals>>
    /\ UNCHANGED exceptSeal

\* A recording is running; its video file is on disk, or the media
\* recorder has not written it yet.
InitSeal ==
    /\ CoreIdle
    /\ TempIdle
    /\ CryptoIdle
    /\ StudyIdle
    /\ AlignIdle
    /\ DetectIdle
    /\ ConvIdle
    /\ SingleIdle
    /\ RecogIdle
    /\ stop_stack = <<>>
    /\ \E pin \in BOOLEAN :
         recwin = [is_recording |-> TRUE, study_pin |-> pin,
                   close_events |-> 0, closed |-> FALSE]
    /\ rec_path = 0
    /\ \E written \in BOOLEAN :
         disk = [q \in 0 .. MaxSeals |->
                    IF q = 0 /\ written THEN 0 ELSE NoLayers]
    /\ seals = <<>>

\* The media recorder finishes writing the video file.
VideoFlushed ==
    /\ disk[0] = NoLayers
    /\ seals = <<>>
    /\ disk' = [disk EXCEPT ![0] = 0]
    /\ UNCHANGED <<stop_stack, recwin, rec_path, seals>>
    /\ UNCHANGED exceptSeal

NextSeal ==
    \/ StopClick
    \/ CloseEvent
    \/ StopMedia
    \/ StopWaited
    \/ StopQuery
    \/ StopFileWait
    \/ StopEncrypt
    \/ StopFinish
    \/ VideoFlushed

SpecSeal == InitSeal /\ [][NextSeal]_vars

(***************************************************************************)
(* Temporary plaintext of the playback windows: study_encryption.py        *)
(* decrypt_file, called by the constructors of ObserverWindow and          *)
(* ResearcherWindow, and the closeEvent of both windows.  The windows live *)
(* in one GUI thread: a constructor or a closeEvent runs to its end before *)
(* the next one starts.                                                    *)
(***************************************************************************)
MaxWindows == 3
WindowIds == 1 .. MaxWindows

\* Recording rows: recorder.py stores out_dir / f"rec_{ts}.mp4" with
\* out_dir = MEDIA_ROOT / case_id and ts of one-second resolution, so two
\* recordings of different studies can carry the same file name.
Recordings ==
    {[id |-> 1, case_id |-> 1, pin |-> 1, data |-> "d1",
      video_path |-> EncPath([dir |-> "media/1", name |-> "rec_1.mp4", enc |-> FALSE])],
     [id |-> 2, case_id |-> 2, pin |-> 2, data |-> "d2",
      video_path |-> EncPath([dir |-> "media/2", name |-> "rec_1.mp4", enc |-> FALSE])],
     [id |-> 3, case_id |-> 1, pin |-> 1, data |-> "d3",
      video_path |-> EncPath([dir |-> "media/1", name |-> "rec_2.mp4", enc |-> FALSE])]}
TempNames == {TempPath(r.video_path) : r \in Recordings}

\* The sealed file of a recording, as encrypt_file left it under the PIN of
\* the recording's study.
Sealed(rec) ==
    FernetEncrypt(derive_key_from_pin(rec.case_id, rec.pin), rec.data)

NoWindow == [kind |-> "none", open |-> FALSE, recording_id |-> 0,
             _temp_video_path |-> <<>>, _allow_close |-> FALSE,
             warned |-> FALSE]

\* decrypt_file(encrypted_path, study_id, pin): <<>> when ValueError is
\* raised, else the path written, /tmp/<basename without .enc>.
decrypt_file(rec, pin) ==
    IF FernetDecrypt(derive_key_from_pin(rec.case_id, pin), Sealed(rec)) = <<>>
    THEN <<>>
    ELSE <<TempPath(rec.video_path)>>

\* The temporary directory after decrypt_file(rec, pin).
Written(dir, rec, pin) ==
    IF decrypt_file(rec, pin) = <<>>
    THEN dir
    ELSE [dir EXCEPT ![decrypt_file(rec, pin)[1]] = Plain(rec.data)]

\* Path(self._temp_video_path).unlink(missing_ok=True)
Unlinked(dir, win) ==
    IF win._temp_video_path = <<>>
    THEN dir
    ELSE [dir EXCEPT ![win._temp_video_path[1]] = NoFile]

\* ResearcherWindow(recording_id, study_pin): a failed decryption shows the
\* message box and closes the window, which has no temporary path yet.
ResearcherOpen(w) ==
    /\ windows[w].kind = "none"
    /\ \E rec \in Recordings, pin \in Pins :
         /\ tmpdir' = Written(tmpdir, rec, pin)
         /\ windows' = [windows EXCEPT ![w] =
                [NoWindow EXCEPT !.kind = "researcher",
                                 !.open = decrypt_file(rec, pin) # <<>>,
                                 !.recording_id = rec.id,
                                 !._temp_video_path = decrypt_file(rec, pin)]]
    /\ UNCHANGED exceptTemp

\* ObserverWindow(recording_id, study_pin): a failed decryption is reported
\* in the status bar and the window stays open without a video.
ObserverOpen(w) ==
    /\ windows[w].kind = "none"
    /\ \E rec \in Recordings, pin \in Pins :
         /\ tmpdir' = Written(tmpdir, rec, pin)
         /\ windows' = [windows EXCEPT ![w] =
                [NoWindow EXCEPT !.kind = "observer",
                                 !.open = TRUE,
                                 !.recording_id = rec.id,
                                 !._temp_video_path = decrypt_file(rec, pin)]]
    /\ UNCHANGED exceptTemp

\* ResearcherWindow.closeEvent
ResearcherClose(w) ==
    /\ windows[w].kind = "researcher" /\ windows[w].open
    /\ tmpdir' = Unlinked(tmpdir, windows[w])
    /\ windows' = [windows EXCEPT ![w].open = FALSE]
    /\ UNCHANGED exceptTemp

\* ObserverWindow.closeEvent with _allow_close not set: ev.ignore() and the
\* warning.
ObserverCloseRefused(w) ==
    /\ windows[w].kind = "observer" /\ windows[w].open
    /\ ~windows[w]._allow_close
    /\ ~windows[w].warned
    /\ windows' = [windows EXCEPT ![w].warned = TRUE]
    /\ UNCHANGED tmpdir
    /\ UNCHANGED exceptTemp

\* The exit of the observer after the PIN was accepted: _allow_close = True,
\* self.close(), and closeEvent unlinks the temporary file.
ObserverClose(w) ==
    /\ windows[w].kind = "observer" /\ windows[w].open
    /\ tmpdir' = Unlinked(tmpdir, windows[w])
    /\ windows' = [windows EXCEPT ![w]._allow_close = TRUE, ![w].open = FALSE]
    /\ UNCHANGED exceptTemp

InitTemp ==
    /\ CoreIdle
    /\ CryptoIdle /\ StudyIdle /\ AlignIdle /\ DetectIdle /\ ConvIdle
    /\ SingleIdle /\ RecogIdle /\ SealIdle
    /\ tmpdir = [n \in TempNames |-> NoFile]
    /\ windows = [w \in WindowIds |-> NoWindow]

NextTemp ==
    \/ \E w \in WindowIds : ResearcherOpen(w)
    \/ \E w \in WindowIds : ObserverOpen(w)
    \/ \E w \in WindowIds : ResearcherClose(w)
    \/ \E w \in WindowIds : ObserverCloseRefused(w)
    \/ \E w \in WindowIds : ObserverClose(w)

SpecTemp == InitTemp /\ [][NextTemp]_vars

(***************************************************************************)
Live(e) == e.code # "INIT"

\* C1: every persisted event has t_ms >= 0, and within a stream t_ms never
\* decreases in persistence order (the INIT marker, then the live events).
C1_TimeMonotone ==
    \A s \in StreamIds :
        \A i \in DOMAIN events[s] :
            /\ events[s][i].t_ms >= 0
            /\ \A j \in DOMAIN events[s] :
                 i < j => events[s][i].t_ms <= events[s][j].t_ms

\* A stream holds its INIT and two live events, the second one stamped later.
C1_Witness ==
    \E s \in StreamIds :
        /\ Len(events[s]) = 3
        /\ Live(events[s][2])
        /\ events[s][2].t_ms < events[s][3].t_ms

\* C2: for every stream, the INIT event is committed before a reader thread
\* exists for the stream and so before any live event is persisted on it:
\* the stream's first event is the INIT marker.
C2_InitBeforeLive ==
    \A s \in StreamIds :
        (s \in Threads \/ LiveEvents(s) # <<>>) =>
            /\ events[s] # <<>>
            /\ ~Live(events[s][1])
            /\ \A i \in 2 .. Len(events[s]) : Live(events[s][i])

\* A reader persisted a live event behind the INIT of its stream.
C2_Witness ==
    \E s \in Threads :
        /\ Len(events[s]) >= 2
        /\ ~Live(events[s][1])
        /\ Live(events[s][2])

\* C3: the first persisted event of every stream is the INIT marker and its
\* t_ms is 0, whichever window created the stream.
C3_InitAtZero ==
    \A s \in StreamIds :
        /\ events[s] # <<>>
        /\ events[s][1].code = "INIT"
        /\ events[s][1].t_ms = 0

\* C4: on a stream whose allowed_inputs is set, the code of every persisted
\* live event is one of the allowed inputs.
C4_OnlyAllowed ==
    \A s \in StreamIds :
        streams[s].calibration.set =>
            \A i \in DOMAIN events[s] :
                Live(events[s][i]) =>
                    events[s][i].code \in get_allowed_inputs(streams[s].calibration)

\* A stream calibrated for its axis only holds a live event of that axis.
C4_Witness ==
    \E s \in StreamIds :
        /\ streams[s].calibration.set
        /\ get_allowed_inputs(streams[s].calibration) = {"ABS_X"}
        /\ LiveEvents(s) # <<>>

\* C5: the value stored for an event of a calibrated axis is an integer
\* within -1000 .. 1000, whatever raw value the device reports.
C5_ValueInRange ==
    \A s \in StreamIds :
        \A i \in DOMAIN events[s] :
            LET e == events[s][i] IN
            (e.kind = "axis" /\ e.code \in DOMAIN streams[s].calibration.axes) =>
                (e.value[1] >= -Scale /\ e.value[1] <= Scale)

\* C6: the two slots never hold the same device, and the streams one capture
\* start creates belong to distinct devices.
C6_OneStreamPerDevice ==
    /\ assigned["A"].path # 0 => assigned["A"].path # assigned["B"].path
    /\ \A s1, s2 \in StreamIds :
        (s1 # s2 /\ streams[s1].created = streams[s2].created) =>
            streams[s1].device_name # streams[s2].device_name

\* C7: stop() on a reader is idempotent, and once it was called the reader
\* persists nothing more: the next event it reads ends its loop.
C7_StopEndsReader ==
    [][\A s \in Threads :
          /\ ReaderStop(ReaderStop(readers[s])) = ReaderStop(readers[s])
          /\ readers[s].stop =>
                /\ events'[s] = events[s]
                /\ (readers[s].pc = "loop" /\ readers'[s] # readers[s]) =>
                       readers'[s].pc = "done"]_vars

\* A reader read an event after stop() was called and left its loop.
C7_Witness ==
    \E s \in Threads :
        /\ readers[s].stop
        /\ readers[s].pc = "done"
        /\ readers[s].exit = "stop"

C9_HandleReleased ==
    \A s \in Threads : readers[s].pc = "done" => readers[s].dev # "open"

\* A reader that was never stopped ended on a device error or a store
\* failure, its handle closed.
C9_Witness ==
    \E s \in Threads :
        /\ readers[s].pc = "done"
        /\ ~readers[s].stop
        /\ readers[s].exit \in {"io_error", "store_error"}
        /\ readers[s].dev = "closed"

\* C10: after the write of one reader of a pipeline has failed, no reader of
\* that pipeline persists another event.
C10_StoreFailureStopsPipeline ==
    [][\A s \in Threads :
          readers[s].exit = "store_error" =>
              \A s2 \in ThreadsOf(readers[s].owner) : events'[s2] = events[s2]]_vars

\* C11: an I/O error on one device ends only that device's reader: the
\* step in which a reader ends on a read error leaves every other reader
\* of the same poller, and the events of every other stream, as they were,
\* and a reader that ended that way never stopped a sibling from storing.
C11_IoErrorIsLocal ==
    [][\A s \in Threads :
          (readers[s].pc = "loop" /\ readers'[s].exit = "io_error") =>
              \A s2 \in ThreadsOf(readers[s].owner) \ {s} :
                  /\ readers'[s2] = readers[s2]
                  /\ events'[s2] = events[s2]]_vars

\* One reader has ended on a read error that no stop() caused; its
\* sibling is still reading and has stored an event of its own device.
C11_Witness ==
    \E s \in Threads : \E s2 \in ThreadsOf(readers[s].owner) \ {s} :
        /\ readers[s].pc = "done" /\ readers[s].exit = "io_error"
        /\ ~readers[s].stop
        /\ readers[s2].pc = "loop" /\ readers[s2].dev = "open"
        /\ LiveEvents(s2) # <<>>

\* C12: start() is idempotent: after the constructor's call and the
\* window's call, every poller holds exactly one reader per entry of its
\* assignment map.
C12_OneReaderPerEntry ==
    \A p \in DOMAIN threads :
        LET pl == threads[p] IN
        /\ Len(pl._threads) = Cardinality(DOMAIN pl.assigned)
        /\ \A d \in DOMAIN pl.assigned :
              Cardinality({i \in DOMAIN pl._threads :
                              pl._threads[i] = pl.assigned[d]}) = 1

\* A poller over two devices on which start() ran twice.
C12_Witness ==
    \E p \in DOMAIN threads :
        /\ Cardinality(DOMAIN threads[p].assigned) = 2
        /\ \A s \in ThreadsOf(p) : readers[s].pc # "none"

\* C13: after encrypt_file has failed, at whichever step, the plaintext
\* file is still in place and no .enc file for it is on disk.
C13_FailedEncryptLeavesNoSealedFile ==
    (call.op = "encrypt" /\ call.pc = "failed") =>
        /\ fs[VideoPath] # NoFile
        /\ fs[EncPath(VideoPath)] = NoFile

\* The sealing pin of the file decrypt_file is reading differs from the
\* pin of the call.
WrongPin ==
    /\ call.op = "decrypt"
    /\ call.pc \in {"read", "unseal", "write"}
    /\ fs[EncPath(VideoPath)].kind = "token"
    /\ fs[EncPath(VideoPath)].key # derive_key_from_pin(StudyId, call.pin)

\* C14: decrypt_file with a pin other than the sealing pin fails, and no
\* step of the failing call creates or overwrites the temporary file.
C14_WrongPinNoPlaintext ==
    [][WrongPin =>
          /\ call'.pc \in {"unseal", "failed"}
          /\ fs' = fs]_vars

\* A call with the wrong pin has failed at the authentication check while
\* the temporary file of an earlier, successful call is on disk.
C14_Witness ==
    /\ call.op = "decrypt" /\ call.pc = "failed"
    /\ call.buf.kind = "token"
    /\ call.buf.key # derive_key_from_pin(StudyId, call.pin)
    /\ fs[TempPath(EncPath(VideoPath))].kind = "plain"

\* The PIN attempts of a guarded action in the access log: the log lines
\* that record a verified or a refused PIN.
ExitAttempt(e) ==
    e.action \in {"OBSERVER_EXIT_GRANTED", "OBSERVER_EXIT_DENIED_ATTEMPT"}
DeleteAttempt(e) ==
    \/ e.action = "PARTICIPANT_DELETE_DENIED"
    \/ /\ e.action \in {"PARTICIPANT_DELETE_COMPLETED", "PARTICIPANT_DELETE_FAILED"}
       /\ \E c \in CaseRows : PinRequired(c)
FailedBefore(i, IsAttempt(_)) ==
    Cardinality({j \in 1 .. (i - 1) :
                    IsAttempt(access_log[j]) /\ ~access_log[j].success})

\* C15: a guarded action accepts at most 3 PIN attempts: no PIN is taken,
\* and so none is granted, for an action that has already refused 3.
C15_AttemptCap ==
    \A i \in DOMAIN access_log :
        /\ ExitAttempt(access_log[i]) =>
              FailedBefore(i, ExitAttempt) < max_attempts
        /\ DeleteAttempt(access_log[i]) =>
              FailedBefore(i, DeleteAttempt) < max_attempts

\* C16: while the study has no stored hash, no step leaves the observer
\* lockdown and no step deletes a participant of the study.
C16_NoHashNoGrant ==
    [][\A c \in CaseRows :
          (c.security_hash = NoHash /\ c \in db'.cases) =>
              /\ observer_open' = observer_open
              /\ StreamsOf(db, CaseId) \subseteq db'.input_streams]_vars

\* C17: the step that deletes a study leaves no recording, session, stream
\* or event that referred to it, directly or through its parents.
C17_StudyDeleteCascades ==
    [][\A c \in CaseIds(db) \ CaseIds(db') :
          /\ RecordingsOf(db, c) \cap db'.recordings = {}
          /\ SessionsOf(db, c) \cap db'.observer_sessions = {}
          /\ StreamsOf(db, c) \cap db'.input_streams = {}
          /\ EventsOf(db, c) \cap db'.input_events = {}]_vars

\* A study has been deleted; the other study still has its rows, among
\* them an event a reader appended.
C17_Witness ==
    \E c \in Studies :
        /\ c \notin CaseIds(db)
        /\ \E o \in CaseIds(db) :
              \E e \in EventsOf(db, o) : e.id[2] > 0

\* C18: a stream and its events stay as persisted for as long as their
\* study exists.
C18_OnlyStudyDeletes ==
    [][\A c \in CaseIds(db) \cap CaseIds(db') :
          /\ StreamsOf(db, c) \subseteq db'.input_streams
          /\ EventsOf(db, c) \subseteq db'.input_events]_vars

\* The value forward fill gives series n at time t.
Carried(n, t) ==
    LET d == trace_data[n]
        before == {k \in DOMAIN d.times_ms : d.times_ms[k] <= t}
    IN  IF before = {} THEN d.values[1] ELSE d.values[SetMax(before)]

\* C19: every aligned value of a series is that series' most recent input
\* value at or before the aligned time (its first value before its first
\* sample).
C19_ForwardFill ==
    aligned # <<>> /\ aligned.out # <<>> =>
        \A n \in DOMAIN aligned.out.values : \A i \in DOMAIN aligned.out.times_ms :
            LET q == aligned.out.values[n][i]
            IN  q[1] = Carried(n, aligned.out.times_ms[i]) * q[2]

\* Sample i of the aligned pair has a normalized distance below 0.3.
BelowThreshold(i) ==
    LET ds == Distances(pair.values1, pair.values2)
        d_min == SetMin(Range(ds))
        d_max == SetMax(Range(ds))
    IN  /\ d_max > d_min
        /\ (ds[i] - d_min) * ThresholdDen < convergence_threshold * (d_max - d_min)

\* a .. b is a maximal run of samples below the threshold that lasts more
\* than 500 ms.
LongRun(a, b) ==
    /\ a <= b
    /\ \A i \in a .. b : BelowThreshold(i)
    /\ a = 1 \/ ~BelowThreshold(a - 1)
    /\ b = Len(pair.times_ms) \/ ~BelowThreshold(b + 1)
    /\ pair.times_ms[b] - pair.times_ms[a] > MinDuration

\* C20: every maximal run below 0.3 that lasts more than 500 ms is reported
\* as exactly one convergence event with the run's start and end times.
C20_EveryRunReported ==
    detected # <<>> =>
        \A a \in DOMAIN pair.times_ms : \A b \in DOMAIN pair.times_ms :
            LongRun(a, b) =>
                Cardinality({k \in DOMAIN detected[1] :
                    detected[1][k] = <<pair.times_ms[a], pair.times_ms[b]>>}) = 1

\* Sample i of the aligned pair has a normalized distance above 0.7.
AboveThreshold(i) ==
    LET ds == Distances(pair.values1, pair.values2)
        d_min == SetMin(Range(ds))
        d_max == SetMax(Range(ds))
    IN  /\ d_max > d_min
        /\ (ds[i] - d_min) * ThresholdDen > divergence_threshold * (d_max - d_min)

\* a .. b is a maximal run of samples above the divergence threshold that
\* lasts more than 500 ms.
LongHighRun(a, b) ==
    /\ a <= b
    /\ \A i \in a .. b : AboveThreshold(i)
    /\ a = 1 \/ ~AboveThreshold(a - 1)
    /\ b = Len(pair.times_ms) \/ ~AboveThreshold(b + 1)
    /\ pair.times_ms[b] - pair.times_ms[a] > MinDuration

\* C21: every maximal run above 0.7 that lasts more than 500 ms is reported
\* as exactly one divergence event with the run's start and end times,
\* whichever convergence runs precede or follow it.
C21_EveryDivergenceReported ==
    detected # <<>> =>
        \A a \in DOMAIN pair.times_ms : \A b \in DOMAIN pair.times_ms :
            LongHighRun(a, b) =>
                Cardinality({k \in DOMAIN detected[2] :
                    detected[2][k] = <<pair.times_ms[a], pair.times_ms[b]>>}) = 1

\* The index of the latest event of conv_in at or before sample k of the
\* timeline (the first event when there is none).
LatestEvent(k) ==
    LET at_or_before == {i \in DOMAIN conv_in.times_ms :
            conv_in.times_ms[i] * conv_in.sampling_rate_hz <= k * 1000}
    IN  IF at_or_before = {} THEN 1 ELSE SetMax(at_or_before)

\* C22: with forward fill the result has one sample for each time 0, period,
\* ..., ceil(t_last / period) * period, and the value of each sample is the
\* value of the latest input event at or before it (the first input value
\* when there is none), unchanged.
C22_ForwardFillHoldsLatest ==
    (conv_out # <<>> /\ conv_in.times_ms # <<>>) =>
        LET rate == conv_in.sampling_rate_hz
            t_last == conv_in.times_ms[Len(conv_in.times_ms)]
            n == CHOOSE m \in 0 .. (t_last * rate + 1) :
                     /\ m * 1000 >= t_last * rate
                     /\ m = 0 \/ (m - 1) * 1000 < t_last * rate
        IN  /\ Len(conv_out[1]) = n + 1
            /\ Len(conv_out[2]) = n + 1
            /\ \A k \in 0 .. n :
                   /\ conv_out[1][k + 1] * rate <= k * 1000
                   /\ (conv_out[1][k + 1] + 1) * rate > k * 1000
                   /\ conv_out[2][k + 1] = conv_in.values_raw[LatestEvent(k)]

\* A conversion with a sample before the first event and a later sample
\* that falls exactly on an event whose value differs from the first.
C22_Witness ==
    /\ conv_out # <<>>
    /\ Len(conv_in.times_ms) >= 2
    /\ conv_in.times_ms[1] > 0
    /\ \E k \in 1 .. Len(conv_out[1]) - 1 : \E i \in 2 .. Len(conv_in.times_ms) :
           /\ conv_in.times_ms[i] * conv_in.sampling_rate_hz = k * 1000
           /\ conv_in.values_raw[i] # conv_in.values_raw[1]
           /\ LatestEvent(k) = i
           /\ conv_out[2][k + 1] = conv_in.values_raw[i]

\* C23: analysing a single trace with no samples returns a single-trace
\* result with all statistics zero and empty change-point, peak and valley
\* lists; the call does not fail.
C23_EmptyTraceIsZero ==
    (single_out # <<>> /\ Len(single_in) = 1 /\ single_in[1].values = <<>>) =>
        /\ single_out.raised = ""
        /\ single_out.analysis_type = "single"
        /\ single_out.mean = 0 /\ single_out.median = 0
        /\ single_out.min_val = 0 /\ single_out.max_val = 0
        /\ single_out.range_val = 0 /\ single_out.num_samples = 0
        /\ single_out.change_points = <<>>
        /\ single_out.peaks = <<>> /\ single_out.valleys = <<>>

\* C24: once an assigned participant has answered that they recognize
\* someone, the session of that start request does not start: no stream or
\* INIT event, no reader, no playback, whatever input follows while the
\* dialog is open.
C24_RecognizedNeverStarts ==
    recog.recognized =>
        /\ streams = <<>>
        /\ events = <<>>
        /\ readers = <<>>
        /\ ~playing

C26_StartedOnce ==
    mode = "observer" => nstart <= 1

\* C27: the video of a recording is sealed at most once: encrypt_file is
\* applied to the plain video file only, never to a path that already ends
\* in ".enc", and no file with two Fernet layers is written.
C27_SealedOnce ==
    /\ Len(seals) <= 1
    /\ \A i \in DOMAIN seals : seals[i] = 0
    /\ \A q \in DOMAIN disk : disk[q] <= 1

\* C28: after GamepadPoller.stop() has set the stop flag of a reader
\* thread, the thread eventually terminates, also when stop() ran before
\* the thread opened its device and when the device emits no further event.
C28_StoppedReaderTerminates ==
    \A s \in 1 .. MaxStreams :
        (s \in StreamIds /\ readers[s].stop)
            ~> (s \in StreamIds /\ readers[s].pc = "done")

\* C29: on a stream created with a calibration, the events of every
\* control that was configured in the calibration dialog pass the reader's
\* allow-list filter: the name the dialog stored for the control is the
\* name the reader derives for it.
C29_CalibratedControlsPass ==
    \A s \in StreamIds :
        LET cal == streams[s].calibration
        IN  cal.set =>
              /\ \A c \in KeyCodes :
                    _get_button_name(c) \in cal.buttons
                        => ~Filtered(cal, _code_name_key(c))
              /\ \A c \in AbsCodes :
                    _get_axis_name(c) \in DOMAIN cal.axes
                        => ~Filtered(cal, _code_name_abs(c))

RecordingOf(id) == CHOOSE r \in Recordings : r.id = id

\* C30: from a successful decrypt until its window closes, the temporary
\* file of a window exists and holds the content of the window's own
\* recording, whatever the other windows decrypt or close in the meantime.
C30_TempPrivate ==
    \A w \in WindowIds :
        (windows[w].open /\ windows[w]._temp_video_path # <<>>)
            => tmpdir[windows[w]._temp_video_path[1]]
                   = Plain(RecordingOf(windows[w].recording_id).data)

====
